---- MODULE Spec2Model ----
(***************************************************************************)
(* A model of the analysis backend of ghaffariOualid/data_scientist:       *)
(*   - app/core/cache.py            AnalysisCache (lock, TTL, eviction)    *)
(*   - app/core/result_validator.py ResultValidator (quality score)        *)
(*   - scripts/crew.py              CustomCrew.run (retries, fallback)     *)
(*   - app/routers/analysis.py      analyze_data and the cache endpoints   *)
(*                                                                         *)
(* Strings are sequences of one-character strings.  A text produced by a   *)
(* pipeline is represented by the features the validator reads from it.    *)
(* The clock time.time() is the integer variable now.                      *)
(***************************************************************************)
EXTENDS Integers, Sequences, FiniteSets, TLC

(***************************************************************************)
(* Bounds of the model.                                                    *)
(***************************************************************************)
\* AnalysisCache(max_size=...): the constructor argument (100 by default)
MaxSize == 2
\* AnalysisCache.__init__: default_ttl
DefaultTtl == 3600
\* an entry whose access_count reached MaxAccess is not read again
MaxAccess == 1

(***************************************************************************)
(* Strings: str.strip(), str.lower(), re.findall(r'\b\w+\b', s)            *)
(***************************************************************************)
Whitespace == {" ", "\t", "\n"}

UpperLetters == <<"A","B","C","D","E","F","G","H","I","J","K","L","M",
                  "N","O","P","Q","R","S","T","U","V","W","X","Y","Z">>

LowerLetters == <<"a","b","c","d","e","f","g","h","i","j","k","l","m",
                  "n","o","p","q","r","s","t","u","v","w","x","y","z">>

Digits == {"0","1","2","3","4","5","6","7","8","9"}

LowerChar(c) ==
    IF \E i \in DOMAIN UpperLetters : UpperLetters[i] = c
    THEN LowerLetters[CHOOSE i \in DOMAIN UpperLetters : UpperLetters[i] = c]
    ELSE c

Lower(s) == [i \in DOMAIN s |-> LowerChar(s[i])]

RECURSIVE LStrip(_)
LStrip(s) ==
    IF s # <<>> /\ Head(s) \in Whitespace THEN LStrip(Tail(s)) ELSE s

RECURSIVE RStrip(_)
RStrip(s) ==
    IF s # <<>> /\ s[Len(s)] \in Whitespace
    THEN RStrip(SubSeq(s, 1, Len(s) - 1))
    ELSE s

Strip(s) == RStrip(LStrip(s))

WordChars ==
    {UpperLetters[i] : i \in DOMAIN UpperLetters}
        \cup {LowerLetters[i] : i \in DOMAIN LowerLetters}
        \cup Digits \cup {"_"}

\* the maximal runs of word characters of s
RECURSIVE WordsFrom(_, _)
WordsFrom(s, cur) ==
    IF s = <<>>
    THEN (IF cur = <<>> THEN {} ELSE {cur})
    ELSE IF Head(s) \in WordChars
         THEN WordsFrom(Tail(s), Append(cur, Head(s)))
         ELSE (IF cur = <<>> THEN {} ELSE {cur}) \cup WordsFrom(Tail(s), <<>>)

Words(s) == WordsFrom(s, <<>>)

Contains(s, c) == \E i \in DOMAIN s : s[i] = c

Min(a, b) == IF a <= b THEN a ELSE b

Max(a, b) == IF a >= b THEN a ELSE b

Take(s, n) == SubSeq(s, 1, Min(n, Len(s)))

(***************************************************************************)
(* Python floats: IEEE 754 binary64 with round-to-nearest, ties-to-even.   *)
(* A float is [neg, m, e]: the number (-1)^neg * m * 2^e, where m is zero  *)
(* or has exactly 53 bits.  m is a natural number written in base 2^14,    *)
(* lowest limb first and without leading zero limbs, since it exceeds the  *)
(* integers of TLC.  The scores of the validator stay far from the         *)
(* overflow and subnormal ranges, which are not modelled.                  *)
(***************************************************************************)
Base == 2 ^ 14

\* Op(a) and Op(a, b) with every argument evaluated once, whatever the
\* number of times Op uses it
Once1(Op(_), a) == CHOOSE r \in {Op(x) : x \in {a}} : TRUE

Once2(Op(_, _), a, b) == CHOOSE r \in {Op(x, y) : x \in {a}, y \in {b}} : TRUE

RECURSIVE BNormTo(_, _)
BNormTo(a, n) ==
    IF n > 0 /\ a[n] = 0 THEN BNormTo(a, n - 1) ELSE SubSeq(a, 1, n)

\* a without its leading zero limbs
BNormLimbs(a) == BNormTo(a, Len(a))

BNorm(a) == Once1(BNormLimbs, a)

RECURSIVE BFromInt(_)
BFromInt(n) == IF n = 0 THEN <<>> ELSE <<n % Base>> \o BFromInt(n \div Base)

Limb(a, i) == IF i <= Len(a) THEN a[i] ELSE 0

\* the limbs i.. of a + b, with carry c into limb i
RECURSIVE BAddFrom(_, _, _, _)
BAddFrom(a, b, i, c) ==
    IF i > Len(a) /\ i > Len(b)
    THEN (IF c = 0 THEN <<>> ELSE <<c>>)
    ELSE LET x == Limb(a, i) + Limb(b, i) + c
         IN  <<x % Base>> \o BAddFrom(a, b, i + 1, x \div Base)

BAddLimbs(a, b) == BAddFrom(a, b, 1, 0)

BAdd(a, b) == Once2(BAddLimbs, a, b)

\* the limbs i.. of a - b for a >= b, with borrow c from limb i
RECURSIVE BSubFrom(_, _, _, _)
BSubFrom(a, b, i, c) ==
    IF i > Len(a) THEN <<>>
    ELSE LET x == a[i] - Limb(b, i) - c
         IN  IF x < 0
             THEN <<x + Base>> \o BSubFrom(a, b, i + 1, 1)
             ELSE <<x>> \o BSubFrom(a, b, i + 1, 0)

BSubLimbs(a, b) == BNorm(BSubFrom(a, b, 1, 0))

BSub(a, b) == Once2(BSubLimbs, a, b)

\* -1, 0, 1 as the limbs i..1 of a are below, equal to, above those of b
RECURSIVE BCmpFrom(_, _, _)
BCmpFrom(a, b, i) ==
    IF i = 0 THEN 0
    ELSE IF a[i] < b[i] THEN -1
    ELSE IF a[i] > b[i] THEN 1
    ELSE BCmpFrom(a, b, i - 1)

BCmpLimbs(a, b) ==
    IF Len(a) < Len(b) THEN -1
    ELSE IF Len(a) > Len(b) THEN 1
    ELSE BCmpFrom(a, b, Len(a))

BCmp(a, b) == Once2(BCmpLimbs, a, b)

\* the limbs i.. of a * d + c * Base^(i-1), for a limb d
RECURSIVE BMulSmallFrom(_, _, _, _)
BMulSmallFrom(a, d, i, c) ==
    IF i > Len(a)
    THEN (IF c = 0 THEN <<>> ELSE <<c>>)
    ELSE LET x == a[i] * d + c
         IN  <<x % Base>> \o BMulSmallFrom(a, d, i + 1, x \div Base)

BMulSmallLimbs(a, d) == BMulSmallFrom(a, d, 1, 0)

\* a * d for a limb d
BMulSmall(a, d) == Once2(BMulSmallLimbs, a, d)

\* a * (the limbs i.. of b), shifted by i - 1 limbs
RECURSIVE BMulFrom(_, _, _)
BMulFrom(a, b, i) ==
    IF i > Len(b) THEN <<>>
    ELSE BAdd([j \in 1..(i - 1) |-> 0] \o BMulSmall(a, b[i]),
              BMulFrom(a, b, i + 1))

BMulLimbs(a, b) == BNorm(BMulFrom(a, b, 1))

BMul(a, b) == Once2(BMulLimbs, a, b)

\* quotient q and remainder r of a by d, for 0 < d <= Base, given those of
\* the limbs above i
RECURSIVE BDivFrom(_, _, _, _, _)
BDivFrom(a, d, i, q, r) ==
    IF i = 0 THEN [q |-> BNorm(q), r |-> r]
    ELSE LET x == r * Base + a[i]
         IN  BDivFrom(a, d, i - 1, <<x \div d>> \o q, x % d)

BDivLimbs(a, d) == BDivFrom(a, d, Len(a), <<>>, 0)

BDivSmall(a, d) == Once2(BDivLimbs, a, d)

BShlLimbs(a, k) ==
    IF a = <<>> THEN <<>>
    ELSE [i \in 1..(k \div 14) |-> 0] \o BMulSmall(a, 2 ^ (k % 14))

\* a * 2^k
BShl(a, k) == Once2(BShlLimbs, a, k)

BShrLimbs(a, k) ==
    IF k \div 14 >= Len(a) THEN <<>>
    ELSE BDivSmall(SubSeq(a, k \div 14 + 1, Len(a)), 2 ^ (k % 14)).q

\* a \div 2^k
BShr(a, k) == Once2(BShrLimbs, a, k)

BBitLenLimbs(a) ==
    IF a = <<>> THEN 0
    ELSE 14 * (Len(a) - 1)
         + (CHOOSE n \in 1..14 : 2 ^ (n - 1) <= a[Len(a)] /\ a[Len(a)] < 2 ^ n)

BBitLen(a) == Once1(BBitLenLimbs, a)

BIsOdd(a) == a # <<>> /\ a[1] % 2 = 1

FZero == [neg |-> FALSE, m |-> <<>>, e |-> 0]

\* q or q + 1 as rounding to nearest, ties to even, decides for the
\* quotient q and the remainder rem of a division by 2^k, where sticky
\* tells that nonzero bits below rem were dropped
RoundedLimbs(q, rem, k, sticky) ==
    LET c == BCmp(rem, BShl(<<1>>, k - 1))
    IN  IF c > 0 \/ (c = 0 /\ (sticky \/ BIsOdd(q)))
        THEN BAdd(q, <<1>>) ELSE q

\* the first 53 bits of x.m, rounded, for x.m of x.k + 53 bits
RoundBits(x) ==
    Once1(LAMBDA q :
            Once1(LAMBDA q1 :
                    IF BBitLen(q1) = 54
                    THEN [neg |-> x.neg, m |-> BShr(q1, 1),
                          e |-> x.e + x.k + 1]
                    ELSE [neg |-> x.neg, m |-> q1, e |-> x.e + x.k],
                  RoundedLimbs(q, BSub(x.m, BShl(q, x.k)), x.k, x.sticky)),
          BShr(x.m, x.k))

RoundLimbs(x, L) ==
    IF L = 0 THEN FZero
    ELSE IF L <= 53
    THEN [neg |-> x.neg, m |-> BShl(x.m, 53 - L), e |-> x.e - (53 - L)]
    ELSE RoundBits([neg |-> x.neg, m |-> x.m, e |-> x.e, k |-> L - 53,
                    sticky |-> x.sticky])

\* the float nearest to (-1)^neg * (M + s) * 2^e, where 0 <= s < 1 and
\* s > 0 iff sticky (sticky only with more than 53 bits in M)
FRound(neg, M, e, sticky) ==
    Once2(RoundLimbs, [neg |-> neg, m |-> M, e |-> e, sticky |-> sticky],
          BBitLen(M))

\* float(n) for an int n >= 0
FInt(n) == FRound(FALSE, BFromInt(n), 0, FALSE)

DivInts(a, b) ==
    IF a = 0 THEN FZero
    ELSE Once1(LAMBDA d : FRound(FALSE, d.q, -70, d.r # 0),
               BDivSmall(BShl(BFromInt(a), 70), b))

\* a / b for ints a >= 0 and 0 < b < Base; also the float of the decimal
\* literal a/b (0.15 is Dec(15, 100))
FDivInt(a, b) == Once2(DivInts, a, b)

Dec(a, b) == FDivInt(a, b)

NegFloat(x) == IF x.m = <<>> THEN x ELSE [x EXCEPT !.neg = ~x.neg]

\* -x
FNeg(x) == Once1(NegFloat, x)

\* x + y for x and y other than zero, as the sum or the difference of
\* X = |x| / 2^emin and Y = |y| / 2^emin
AddAligned(x, y, emin, X, Y) ==
    IF x.neg = y.neg THEN FRound(x.neg, BAdd(X, Y), emin, FALSE)
    ELSE Once1(LAMBDA c :
                 IF c = 0 THEN FZero
                 ELSE IF c > 0 THEN FRound(x.neg, BSub(X, Y), emin, FALSE)
                 ELSE FRound(y.neg, BSub(Y, X), emin, FALSE),
               BCmp(X, Y))

AddFloats(x, y) ==
    IF x.m = <<>> THEN y
    ELSE IF y.m = <<>> THEN x
    ELSE LET emin == IF x.e <= y.e THEN x.e ELSE y.e
         IN  Once2(LAMBDA X, Y : AddAligned(x, y, emin, X, Y),
                   BShl(x.m, x.e - emin), BShl(y.m, y.e - emin))

\* x + y
FAdd(x, y) == Once2(AddFloats, x, y)

\* x - y
FSub(x, y) == FAdd(x, FNeg(y))

MulFloats(x, y) ==
    IF x.m = <<>> \/ y.m = <<>> THEN FZero
    ELSE FRound(x.neg # y.neg, BMul(x.m, y.m), x.e + y.e, FALSE)

\* x * y
FMul(x, y) == Once2(MulFloats, x, y)

LessFloats(x, y) ==
    IF x.neg # y.neg THEN x.neg /\ (x.m # <<>> \/ y.m # <<>>)
    ELSE IF x.m = <<>> THEN y.m # <<>> /\ ~y.neg
    ELSE IF y.m = <<>> THEN x.neg
    ELSE LET c == IF x.e < y.e THEN -1
                  ELSE IF x.e > y.e THEN 1 ELSE BCmp(x.m, y.m)
         IN  IF x.neg THEN c > 0 ELSE c < 0

\* x < y
FLt(x, y) == Once2(LessFloats, x, y)

\* x >= y
FGe(x, y) == ~FLt(x, y)

MinFloats(x, y) == IF FLt(y, x) THEN y ELSE x

MaxFloats(x, y) == IF FLt(x, y) THEN y ELSE x

\* min(x, y) and max(x, y) of Python: the first argument unless the second
\* is smaller (larger)
FMin(x, y) == Once2(MinFloats, x, y)

FMax(x, y) == Once2(MaxFloats, x, y)

(***************************************************************************)
(* ResultValidator (app/core/result_validator.py).                         *)
(*                                                                         *)
(* A content is the record of what the validator's patterns find in it:    *)
(*   raw_len  len(raw), len  len(raw.strip()),                             *)
(*   hdr      a line matches ^#+\s          lst  a bullet or numbered line *)
(*   par      >= 2 paragraphs of more than 20 characters                   *)
(*   num      \b\d+(\.\d+)?%?\b matches     ins  insight indicators found  *)
(*   act      one of recommend/suggest/should/consider/action occurs       *)
(*   act4     one of recommend/suggest/should/consider occurs              *)
(*   ana      the analysis indicators that occur                           *)
(*   semE, semC, semA  an entity / comparison / aggregate term occurs      *)
(*   ans      one of answer/result/finding/analysis/report occurs          *)
(*   words    set(re.findall(r'\b\w+\b', content.lower()))                 *)
(* Scores are Python floats, computed by the operations of the code in     *)
(* the order of the code.                                                  *)
(***************************************************************************)
min_content_length == 50

max_content_length == 10000

AnalysisIndicators ==
    {"analysis", "report", "summary", "findings", "results", "data",
     "correlation", "relationship", "comparison", "statistics", "insights"}

Frac(n, d) == [num |-> n, den |-> d]

\* the float literals of result_validator.py
f_0_0 == FZero

f_1_0 == FInt(1)

f_0_05 == Dec(5, 100)

f_0_1 == Dec(1, 10)

f_0_15 == Dec(15, 100)

f_0_2 == Dec(2, 10)

f_0_3 == Dec(3, 10)

f_0_4 == Dec(4, 10)

f_0_5 == Dec(5, 10)

f_0_8 == Dec(8, 10)

\* score += d when the condition holds
AddIf(score, cond, d) == IF cond THEN FAdd(score, d) ELSE score

\* score -= d when the condition holds
SubIf(score, cond, d) == IF cond THEN FSub(score, d) ELSE score

ClampAbove(score) == FMin(f_1_0, score)

\* max(0.0, min(1.0, score))
Clamp(score) == FMax(f_0_0, FMin(f_1_0, score))

\* _validate_structure
ValidateStructureNoParagraphs(content) ==
    FMin(f_1_0, AddIf(AddIf(f_0_5, content.hdr, f_0_2), content.lst, f_0_15))

ValidateStructure(content) ==
    FMin(f_1_0,
         AddIf(AddIf(AddIf(f_0_5, content.hdr, f_0_2),
                     content.lst, f_0_15),
               content.par, f_0_15))

\* _validate_content_quality
ValidateContentQuality(content) ==
    FMin(f_1_0,
         AddIf(FAdd(AddIf(f_0_5, content.num, f_0_2),
                    FMin(f_0_2, FMul(FInt(content.ins), f_0_05))),
               content.act, f_0_1))

QueryWordCount(query) == Max(Cardinality(Words(Lower(query))), 1)

\* overlap_score of _validate_relevance
OverlapScore(content, query) ==
    FDivInt(Cardinality(Words(Lower(query)) \cap content.words),
            QueryWordCount(query))

\* analysis_score of _validate_relevance
AnalysisScore(content) ==
    FDivInt(Cardinality(content.ana), Cardinality(AnalysisIndicators))

\* semantic_relevance of _validate_relevance
SemanticRelevance(content) ==
    AddIf(AddIf(AddIf(f_0_0, content.semE, f_0_3), content.semC, f_0_3),
          content.semA, f_0_2)

\* _validate_relevance
ValidateRelevance(content, query) ==
    FMin(f_1_0,
         AddIf(FAdd(FAdd(FMul(OverlapScore(content, query), f_0_4),
                         FMul(AnalysisScore(content), f_0_3)),
                    FMul(SemanticRelevance(content), f_0_3)),
               Contains(query, "?") /\ content.ans, f_0_2))

\* _get_structure_feedback
StructureFeedback(content) ==
    [issues |->
        (IF ~content.hdr THEN <<"Content lacks clear section headers">> ELSE <<>>)
        \o (IF ~content.lst THEN <<"Content could benefit from lists">> ELSE <<>>),
     suggestions |->
        (IF ~content.hdr THEN <<"Use markdown headers">> ELSE <<>>)
        \o (IF ~content.lst THEN <<"Use bullet points or numbered lists">> ELSE <<>>)]

\* _get_quality_feedback
QualityFeedback(content) ==
    [issues |->
        (IF ~content.num THEN <<"Analysis lacks specific numbers or metrics">> ELSE <<>>)
        \o (IF ~content.act4 THEN <<"Analysis lacks actionable recommendations">> ELSE <<>>),
     suggestions |->
        (IF ~content.num THEN <<"Include concrete numbers">> ELSE <<>>)
        \o (IF ~content.act4 THEN <<"Provide specific recommendations">> ELSE <<>>)]

ValidationResult(v, s, i, g) ==
    [is_valid |-> v, score |-> s, issues |-> i, suggestions |-> g]

\* the early return of both validators, lines 44 and 106
EmptyResult(issue, suggestion) ==
    ValidationResult(FALSE, f_0_0, <<issue>>, <<suggestion>>)

BlendedScoreLengthLast(content, st, ql, rel) ==
    FAdd(FMul(SubIf(SubIf(FMul(FMul(f_1_0, st), ql),
                          content.len < min_content_length, f_0_3),
                    content.len > max_content_length, f_0_1),
              f_0_8),
         FMul(rel, f_0_2))

\* the score of validate_analysis_result before line 84, for the scores
\* st, ql and rel of the three stages
BlendedScore(content, st, ql, rel) ==
    FAdd(FMul(FMul(FMul(SubIf(SubIf(f_1_0,
                                    content.len < min_content_length, f_0_3),
                              content.len > max_content_length, f_0_1),
                        st),
                   ql),
              f_0_8),
         FMul(rel, f_0_2))

\* the issues and the suggestions of validate_analysis_result
AnalysisFeedback(content, low_structure, low_quality, low_relevance) ==
    LET short == content.len < min_content_length
        long  == content.len > max_content_length
        sf    == StructureFeedback(content)
        qf    == QualityFeedback(content)
    IN  [issues |->
            (IF short THEN <<"Content too short">> ELSE <<>>)
            \o (IF long THEN <<"Content too long">> ELSE <<>>)
            \o (IF low_structure THEN sf.issues ELSE <<>>)
            \o (IF low_quality THEN qf.issues ELSE <<>>)
            \o (IF low_relevance
                THEN <<"Content may not fully address the query">> ELSE <<>>),
         suggestions |->
            (IF short THEN <<"Expand the analysis">> ELSE <<>>)
            \o (IF long THEN <<"Consider summarizing key points">> ELSE <<>>)
            \o (IF low_structure THEN sf.suggestions ELSE <<>>)
            \o (IF low_quality THEN qf.suggestions ELSE <<>>)
            \o (IF low_relevance
                THEN <<"Ensure analysis directly answers the question">>
                ELSE <<>>)]

\* lines 84-88: the result for the blended score and the feedback
ScoredResult(score, feedback) ==
    ValidationResult(FGe(score, f_0_4), score, feedback.issues,
                     feedback.suggestions)

\* lines 46-88 of validate_analysis_result: the stages after the empty
\* check, each stage computed once
AnalysisStages(content, query) ==
    CHOOSE result \in
        {Once2(ScoredResult,
               Clamp(BlendedScore(content, st, ql, rel)),
               AnalysisFeedback(content, FLt(st, f_0_8), FLt(ql, f_0_8),
                                FLt(rel, f_0_3))) :
            st  \in {ValidateStructure(content)},
            ql  \in {ValidateContentQuality(content)},
            rel \in {ValidateRelevance(content, query)}} : TRUE

ValidateAnalysisAlways(content, query) == AnalysisStages(content, query)

\* validate_analysis_result(content, query)
ValidateAnalysisResult(content, query) ==
    IF content.raw_len = 0 \/ content.len = 0
    THEN EmptyResult("Content is empty",
                     "Ensure the analysis generates meaningful output")
    ELSE AnalysisStages(content, query)

(***************************************************************************)
(* ResultValidator.validate_visualization_code.  The code is a string; the *)
(* column references and the issues are kept as sets and records, since    *)
(* list(set(columns)) has no fixed order.                                  *)
(***************************************************************************)
\* needle occurs in s at position i
OccursAt(s, needle, i) ==
    /\ i + Len(needle) - 1 <= Len(s)
    /\ SubSeq(s, i, i + Len(needle) - 1) = needle

\* needle in s
In(needle, s) == \E i \in 1..Len(s) : OccursAt(s, needle, i)

\* s.count(needle) for the occurrences from position i on
RECURSIVE CountFrom(_, _, _)
CountFrom(s, needle, i) ==
    IF i + Len(needle) - 1 > Len(s) THEN 0
    ELSE IF OccursAt(s, needle, i)
         THEN 1 + CountFrom(s, needle, i + Len(needle))
         ELSE CountFrom(s, needle, i + 1)

\* s.count(needle)
Count(s, needle) == CountFrom(s, needle, 1)

Quotes == {"'", "\""}

\* the first position from i on where s has a character of chars, or
\* Len(s) + 1
RECURSIVE FirstIn(_, _, _)
FirstIn(s, chars, i) ==
    IF i > Len(s) \/ s[i] \in chars THEN i ELSE FirstIn(s, chars, i + 1)

\* the first position from i on where s has no word character, or
\* Len(s) + 1
RECURSIVE WordEnd(_, _)
WordEnd(s, i) ==
    IF i > Len(s) \/ s[i] \notin WordChars THEN i ELSE WordEnd(s, i + 1)

NoMatch == [matched |-> FALSE]

\* df\[['\"]([^'\"]+)['\"]\] matched at position i
BracketMatch(code, i) ==
    LET j == FirstIn(code, Quotes, i + 4)
    IN  IF /\ OccursAt(code, <<"d", "f", "[">>, i)
           /\ i + 3 <= Len(code) /\ code[i + 3] \in Quotes
           /\ j > i + 4
           /\ j + 1 <= Len(code) /\ code[j + 1] = "]"
        THEN [matched |-> TRUE, column |-> SubSeq(code, i + 4, j - 1),
              end |-> j + 1]
        ELSE NoMatch

\* df\.(\w+) matched at position i
DotMatch(code, i) ==
    LET k == WordEnd(code, i + 3)
    IN  IF OccursAt(code, <<"d", "f", ".">>, i) /\ k > i + 3
        THEN [matched |-> TRUE, column |-> SubSeq(code, i + 3, k - 1),
              end |-> k - 1]
        ELSE NoMatch

\* re.findall(column_pattern, code) from position i on: the set of the
\* groups that matched
RECURSIVE FindColumns(_, _)
FindColumns(code, i) ==
    IF i > Len(code) THEN {}
    ELSE LET b == BracketMatch(code, i)
             m == IF b.matched THEN b ELSE DotMatch(code, i)
         IN  IF m.matched
             THEN {m.column} \cup FindColumns(code, m.end + 1)
             ELSE FindColumns(code, i + 1)

\* _extract_column_references
ExtractColumnReferences(code) == FindColumns(code, 1)

\* an issue of validate_visualization_code and the names its text lists
Issue(text, names) == [issue |-> text, names |-> names]

\* _check_basic_syntax
CheckBasicSyntax(code) ==
    LET single_quotes == Count(code, <<"'">>) - Count(code, <<"\\", "'">>)
        double_quotes == Count(code, <<"\"">>) - Count(code, <<"\\", "\"">>)
    IN  (IF single_quotes % 2 # 0
         THEN <<Issue("Unmatched single quotes in code", {})>> ELSE <<>>)
        \o (IF double_quotes % 2 # 0
            THEN <<Issue("Unmatched double quotes in code", {})>> ELSE <<>>)
        \o (IF Count(code, <<"(">>) # Count(code, <<")">>)
            THEN <<Issue("Unmatched parentheses in code", {})>> ELSE <<>>)
        \o (IF Count(code, <<"[">>) # Count(code, <<"]">>)
            THEN <<Issue("Unmatched square brackets in code", {})>> ELSE <<>>)
        \o (IF Count(code, <<"{">>) # Count(code, <<"}">>)
            THEN <<Issue("Unmatched curly braces in code", {})>> ELSE <<>>)

\* the columns of used_columns that are not in df_columns
InvalidColumns(code, df_columns) ==
    {col \in ExtractColumnReferences(code) :
        \A i \in DOMAIN df_columns : df_columns[i] # col}

\* validate_visualization_code(code, df_columns)
ValidateVisualizationCode(code, df_columns) ==
    IF Len(code) = 0 \/ Len(Strip(code)) = 0
    THEN ValidationResult(FALSE, f_0_0, <<Issue("Code is empty", {})>>,
                          <<"Generate valid Python code for visualization">>)
    ELSE
    LET no_fig    == ~In(<<"f", "i", "g">>, code)
        no_plotly == ~(In(<<"p", "x", ".">>, code) \/ In(<<"g", "o", ".">>, code))
        no_df     == ~In(<<"d", "f">>, code) /\ ~In(<<"p", "d", ".", "r", "e", "a", "d", "_", "c", "s", "v">>, code)
        invalid_columns == InvalidColumns(code, df_columns)
        syntax_issues   == CheckBasicSyntax(code)
        s1 == SubIf(f_1_0, no_fig, f_0_5)
        s2 == SubIf(s1, no_plotly, f_0_4)
        s3 == SubIf(s2, no_df, f_0_3)
        s4 == SubIf(s3, invalid_columns # {}, f_0_2)
        s5 == SubIf(s4, syntax_issues # <<>>,
                    FMul(f_0_1, FInt(Len(syntax_issues))))
        score == Clamp(s5)
        issues ==
            (IF no_fig
             THEN <<Issue("Code does not create a 'fig' object", {})>>
             ELSE <<>>)
            \o (IF no_plotly
                THEN <<Issue("Code does not use Plotly libraries", {})>>
                ELSE <<>>)
            \o (IF no_df
                THEN <<Issue("Code does not reference the dataframe", {})>>
                ELSE <<>>)
            \o (IF invalid_columns # {}
                THEN <<Issue("Code references non-existent columns",
                             invalid_columns)>>
                ELSE <<>>)
            \o syntax_issues
        suggestions ==
            (IF no_fig THEN <<"Ensure the code creates a figure named 'fig'">>
             ELSE <<>>)
            \o (IF no_plotly THEN <<"Use Plotly Express or Graph Objects">>
                ELSE <<>>)
            \o (IF no_df THEN <<"Use the provided dataframe 'df'">> ELSE <<>>)
            \o (IF invalid_columns # {} THEN <<"Use only available columns">>
                ELSE <<>>)
            \o (IF syntax_issues # <<>> THEN <<"Fix syntax errors">> ELSE <<>>)
    IN  ValidationResult(FGe(score, f_0_5), score, issues, suggestions)

(***************************************************************************)
(* The state.                                                              *)
(***************************************************************************)
VARIABLES
    cache,      \* AnalysisCache.cache: the entries, in dict (insertion) order
    lock,       \* AnalysisCache.lock: the thread holding it, or NoThread
    now,        \* time.time()
    pc,         \* where each thread is
    frame,      \* the locals of the cache method a thread is executing
    ret,        \* the last cache method of a thread and what it returned
    run         \* the locals of a thread's analyze_data request

vars == <<cache, lock, now, pc, frame, ret, run>>

NoThread == "NoThread"

ApiThreads == {"api1", "api2"}

RunThreads == {"req1", "req2"}

\* the thread that calls CustomGroqLLM.call
LlmThread == "llm1"

\* the thread that calls the methods of ResultValidator on their own
ValidatorThread == "val1"

Threads == ApiThreads \cup RunThreads \cup {LlmThread, ValidatorThread}

\* Python's None as a payload, and the absence of a frame or return value
NoneVal == [kind |-> "None"]

(***************************************************************************)
(* AnalysisCache (app/core/cache.py): keys.                                *)
(***************************************************************************)
HexAlphabet == Digits \cup {"a", "b", "c", "d", "e", "f"}

\* hashlib.md5(x.encode()).hexdigest(): 32 characters of HexAlphabet that
\* identify x (no two inputs of the model collide)
Md5(x) == [md5 |-> x]

\* the except branch of _hash_dataframe
ErrorHash == [literal |-> "error_hash"]

\* the characters of a data hash or key
CharsOf(h) == IF h = ErrorHash
              THEN {"e", "r", "o", "h", "a", "s", "_"}
              ELSE HexAlphabet

\* the try block of _hash_dataframe, lines 67-73: the md5 of columns, shape
\* and head(5), or the exception raised on the way (json.dumps raises
\* TypeError for a value it cannot serialise)
HashBody(df) ==
    IF df.faulty
    THEN [outcome |-> "raise", error |-> "TypeError"]
    ELSE [outcome |-> "return",
          result  |-> Md5([columns |-> df.columns, shape |-> df.shape,
                           sample |-> df.head])]

\* the exception leaves _hash_dataframe
HashDataframeUncaught(df) ==
    LET r == HashBody(df)
    IN  IF r.outcome = "raise" THEN [raised |-> r.error] ELSE r.result

\* _hash_dataframe(df): except Exception gives the constant
HashDataframe(df) ==
    LET r == HashBody(df)
    IN  IF r.outcome = "raise" THEN ErrorHash ELSE r.result

\* _generate_key(query, data_hash)
GenerateKey(query, data_hash) ==
    Md5([combined |-> <<Lower(Strip(query)), "|", data_hash>>])

\* '|' in key
KeyHasSeparator(key) == "|" \in CharsOf(key)

\* key.split('|')[0]: the part of the key before its first separator; a
\* string without the separator is returned whole
QueryPartOf(key) == key

(***************************************************************************)
(* AnalysisCache: entries and the operations done under the lock.          *)
(***************************************************************************)
CacheEntry(k, d, ts, ttl) ==
    [key |-> k, data |-> d, timestamp |-> ts, ttl |-> ttl, access_count |-> 0]

\* CacheEntry.is_expired at clock reading t
IsExpired(entry, t) == t - entry.timestamp > entry.ttl

\* touch that leaves the entry as it is
TouchNothing(entry) == entry

\* touch that counts down
TouchCountsDown(entry) == [entry EXCEPT !.access_count = @ - 1]

\* CacheEntry.touch
Touch(entry) == [entry EXCEPT !.access_count = @ + 1]

\* the position of key in the dict, 0 when absent
IndexOf(c, key) ==
    IF \E i \in DOMAIN c : c[i].key = key
    THEN CHOOSE i \in DOMAIN c : c[i].key = key
    ELSE 0

RemoveAt(c, i) == SubSeq(c, 1, i - 1) \o SubSeq(c, i + 1, Len(c))

\* the body of get under the lock: the new dict and the value returned
GetLocked(c, key, t) ==
    LET i == IndexOf(c, key)
    IN  IF i # 0 /\ ~IsExpired(c[i], t)
        THEN [cache |-> [c EXCEPT ![i] = Touch(@)], value |-> c[i].data]
        ELSE IF i # 0 /\ IsExpired(c[i], t)
             THEN [cache |-> RemoveAt(c, i), value |-> NoneVal]
             ELSE [cache |-> c, value |-> NoneVal]

\* ttl = ttl or self.default_ttl
EffectiveTtlAsGiven(ttl_arg) == ttl_arg.value

EffectiveTtl(ttl_arg) ==
    IF ttl_arg.given /\ ttl_arg.value # 0 THEN ttl_arg.value ELSE DefaultTtl

\* _cleanup_expired
CleanupExpired(c, t) == SelectSeq(c, LAMBDA e : ~IsExpired(e, t))

\* eviction of the first entry with the smallest access_count
EvictLeastAccessed(c) ==
    IF c = <<>>
    THEN c
    ELSE LET least == CHOOSE i \in DOMAIN c :
                          /\ \A j \in DOMAIN c : c[i].access_count <= c[j].access_count
                          /\ \A j \in 1..(i - 1) : c[j].access_count > c[i].access_count
         IN  RemoveAt(c, least)

\* _evict_lru: min() returns the first key with the smallest timestamp
EvictLru(c) ==
    IF c = <<>>
    THEN c
    ELSE LET oldest == CHOOSE i \in DOMAIN c :
                           /\ \A j \in DOMAIN c : c[i].timestamp <= c[j].timestamp
                           /\ \A j \in 1..(i - 1) : c[j].timestamp > c[i].timestamp
         IN  RemoveAt(c, oldest)

\* MakeRoom with the capacity tests written > instead of >=
MakeRoomOffByOne(c, t) ==
    LET swept == IF Len(c) > MaxSize THEN CleanupExpired(c, t) ELSE c
    IN  IF Len(swept) > MaxSize THEN EvictLru(swept) ELSE swept

\* MakeRoom that evicts before it sweeps
MakeRoomEvictsFirst(c, t) ==
    LET evicted == IF Len(c) >= MaxSize THEN EvictLru(c) ELSE c
    IN  IF Len(c) >= MaxSize THEN CleanupExpired(evicted, t) ELSE evicted

\* set under the lock, before the insertion: the two capacity checks
MakeRoom(c, t) ==
    LET swept == IF Len(c) >= MaxSize THEN CleanupExpired(c, t) ELSE c
    IN  IF Len(swept) >= MaxSize THEN EvictLru(swept) ELSE swept

\* Store that keeps the entry already held under the key
StoreIfAbsent(c, entry) ==
    IF IndexOf(c, entry.key) # 0 THEN c ELSE Append(c, entry)

\* Store that adds the entry beside the one already held under the key
StoreBeside(c, entry) == Append(c, entry)

\* self.cache[key] = entry
Store(c, entry) ==
    LET i == IndexOf(c, entry.key)
    IN  IF i # 0 THEN [c EXCEPT ![i] = entry] ELSE Append(c, entry)

\* the keys invalidate_by_query collects
KeysToRemove(c, query_lower) ==
    {c[i].key : i \in {j \in DOMAIN c :
                          /\ KeyHasSeparator(c[j].key)
                          /\ QueryPartOf(c[j].key) = query_lower}}

\* the body of invalidate_by_query under the lock
InvalidateLocked(c, query_lower) ==
    LET gone == KeysToRemove(c, query_lower)
    IN  [cache |-> SelectSeq(c, LAMBDA e : e.key \notin gone),
         invalidated |-> Cardinality(gone)]

RECURSIVE SumAccess(_)
SumAccess(c) == IF c = <<>> THEN 0 ELSE Head(c).access_count + SumAccess(Tail(c))

\* the body of stats under the lock
StatsLocked(c, t) ==
    LET total   == Len(c)
        expired == Len(SelectSeq(c, LAMBDA e : IsExpired(e, t)))
        acc     == SumAccess(c)
    IN  [total_entries |-> total,
         expired_entries |-> expired,
         valid_entries |-> total - expired,
         total_accesses |-> acc,
         hit_rate |-> Frac(acc, Max(1, acc + (total - acc)))]

(***************************************************************************)
(* The inputs of the cache API.                                            *)
(***************************************************************************)
QueryAge == <<"a", "g", "e">>

QueryAgeUpper == <<"A", "G", "E">>

QueryAgePadded == <<" ", "a", "g", "e", " ">>

QuerySum == <<"s", "u", "m">>

Queries == {QueryAge, QueryAgeUpper, QueryAgePadded, QuerySum}

DataFrame(cols, shape, head, rest, faulty) ==
    [columns |-> cols, shape |-> shape, head |-> head, rest |-> rest,
     faulty |-> faulty]

DfA == DataFrame(<<"name", "age">>, <<6, 2>>, "rowsA", "restA", FALSE)

\* the same columns, shape and first five rows as DfA
DfASameHead == DataFrame(<<"name", "age">>, <<6, 2>>, "rowsA", "restB", FALSE)

DfB == DataFrame(<<"name", "age">>, <<6, 2>>, "rowsB", "restB", FALSE)

\* datasets whose first rows json.dumps cannot serialise
DfOdd1 == DataFrame(<<"name", "born">>, <<6, 2>>, "rowsC", "restC", TRUE)

DfOdd2 == DataFrame(<<"city", "opened">>, <<9, 2>>, "rowsD", "restD", TRUE)

\* the (query, df) arguments of get and set: three fingerprints
CacheArgs ==
    {<<QueryAge, DfA>>, <<QueryAgeUpper, DfASameHead>>, <<QueryAgePadded, DfB>>,
     <<QuerySum, DfA>>}

\* the key get and set compute for their arguments (lines 89-90, 115-116)
Fingerprint(query, df) == GenerateKey(query, HashDataframe(df))

DataFrames == {DfA, DfASameHead, DfB, DfOdd1, DfOdd2}

\* the dataset whose hashing raised in a call with df, if it did
FaultOf(df) ==
    IF HashBody(df).outcome = "raise" THEN [raised_for |-> df] ELSE NoneVal

FingerprintOf == [a \in Queries \X DataFrames |-> Fingerprint(a[1], a[2])]

Opaque(id) == [kind |-> "opaque", id |-> id]

Payloads == {Opaque("p1"), Opaque("p2")}

TtlNone == [given |-> FALSE, value |-> 0]

TtlOf(n) == [given |-> TRUE, value |-> n]

TtlArgs == {TtlNone, TtlOf(0)}

\* the clock readings of the model
TimeGrid == {0, 2, DefaultTtl + 1}

\* the clock advances
Tick ==
    /\ \E t \in TimeGrid : t > now /\ now' = t
    /\ UNCHANGED <<cache, lock, pc, frame, ret, run>>

NoRun == [stage |-> "none"]

NoOp == [op |-> "none"]

Init ==
    /\ cache = <<>>
    /\ lock = NoThread
    /\ now = 0
    /\ pc = [t \in Threads |-> "idle"]
    /\ frame = [t \in Threads |-> NoneVal]
    /\ ret = [t \in Threads |-> NoOp]
    /\ run = [t \in Threads |-> NoRun]

\* Lock.acquire() succeeds
LockFree == lock = NoThread

\* a hit on key would raise access_count past the bound of the model
AccessBounded(key) ==
    LET i == IndexOf(cache, key)
    IN  i # 0 => cache[i].access_count < MaxAccess

(***************************************************************************)
(* SpecCache: the public methods of AnalysisCache called one after the     *)
(* other.  Each action is one whole call: the key, the lock, the body, the *)
(* release.  ret is the call and what it returned.                         *)
(***************************************************************************)
ApiThread == "api1"

\* the access counts of the entries of c that are not in d
Evicted(c, d) ==
    LET gone == SelectSeq(c, LAMBDA e : \A j \in DOMAIN d : d[j] # e)
    IN  [i \in DOMAIN gone |-> gone[i].access_count]

\* get(query, df)
Get(query, df) ==
    LET key == FingerprintOf[<<query, df>>]
        r   == GetLocked(cache, key, now)
    IN  /\ LockFree
        /\ AccessBounded(key)
        /\ cache' = r.cache
        /\ ret' = [ret EXCEPT ![ApiThread] =
                      [op |-> "get", key |-> key, value |-> r.value,
                       fault |-> FaultOf(df)]]
        /\ UNCHANGED <<lock, now, pc, frame, run>>

\* set(query, df, data, ttl)
Set(query, df, data, ttl_arg) ==
    LET key   == FingerprintOf[<<query, df>>]
        entry == CacheEntry(key, data, now, EffectiveTtl(ttl_arg))
    IN  /\ LockFree
        /\ cache' = Store(MakeRoom(cache, now), entry)
        /\ ret' = [ret EXCEPT ![ApiThread] =
                      [op |-> "set", key |-> key, data |-> data,
                       ttl_arg |-> ttl_arg,
                       evicted |-> Evicted(cache, MakeRoom(cache, now)),
                       fault |-> FaultOf(df)]]
        /\ UNCHANGED <<lock, now, pc, frame, run>>

\* invalidate_by_query(query)
InvalidateByQuery(query) ==
    LET r == InvalidateLocked(cache, Lower(Strip(query)))
    IN  /\ LockFree
        /\ cache' = r.cache
        /\ ret' = [ret EXCEPT ![ApiThread] =
                      [op |-> "invalidate", query_lower |-> Lower(Strip(query)),
                       value |-> r.invalidated]]
        /\ UNCHANGED <<lock, now, pc, frame, run>>

\* clear()
Clear ==
    /\ LockFree
    /\ cache' = <<>>
    /\ ret' = [ret EXCEPT ![ApiThread] = [op |-> "clear", value |-> Len(cache)]]
    /\ UNCHANGED <<lock, now, pc, frame, run>>

\* stats()
Stats ==
    /\ LockFree
    /\ ret' = [ret EXCEPT ![ApiThread] =
                  [op |-> "stats", value |-> StatsLocked(cache, now)]]
    /\ UNCHANGED <<cache, lock, now, pc, frame, run>>

NextCache ==
    \/ \E a \in CacheArgs : Get(a[1], a[2])
    \/ \E a \in CacheArgs, d \in Payloads, ttl \in TtlArgs : Set(a[1], a[2], d, ttl)
    \/ \E q \in Queries : InvalidateByQuery(q)
    \/ Clear
    \/ Stats
    \/ Tick

SpecCache == Init /\ [][NextCache]_vars

(***************************************************************************)
(* SpecCacheOdd: the calls of SpecCache with datasets whose hashing raises *)
(* among the arguments.                                                    *)
(***************************************************************************)
OddArgs ==
    {<<QueryAge, DfA>>, <<QueryAge, DfOdd1>>, <<QueryAgeUpper, DfOdd2>>,
     <<QuerySum, DfOdd1>>}

NextCacheOdd ==
    \/ \E a \in OddArgs : Get(a[1], a[2])
    \/ \E a \in OddArgs, d \in Payloads : Set(a[1], a[2], d, TtlNone)
    \/ Clear
    \/ Tick

SpecCacheOdd == Init /\ [][NextCacheOdd]_vars

(***************************************************************************)
(* SpecSweep: calls of set and the clock.  One fingerprint is stored with  *)
(* the default ttl and two with a ttl of one second, so that an entry that *)
(* has expired can be younger than, or as old as, one that has not.        *)
(***************************************************************************)
LongLived == {<<QueryAge, DfA>>}

ShortLived == {<<QueryAgePadded, DfB>>, <<QuerySum, DfA>>}

ShortTtl == TtlOf(1)

NextSweep ==
    \/ \E a \in LongLived : Set(a[1], a[2], Opaque("p1"), TtlNone)
    \/ \E a \in ShortLived : Set(a[1], a[2], Opaque("p2"), ShortTtl)
    \/ Tick

SpecSweep == Init /\ [][NextSweep]_vars

(***************************************************************************)
(* SpecThreads: two threads call the public methods of AnalysisCache       *)
(* concurrently.  A method computes its key (set also builds its entry,    *)
(* reading the clock) before `with self.lock`; it then waits for the lock, *)
(* runs its body and releases the lock on leaving the with block.          *)
(***************************************************************************)
WaitLabels ==
    {"get_wait", "set_wait", "invalidate_wait", "clear_wait", "stats_wait"}

\* the body of set waits for the lock again, as a call of clear() would
BodyLabelReentrant(l) ==
    CASE l = "get_wait"        -> "get_body"
      [] l = "set_wait"        -> "clear_wait"
      [] l = "invalidate_wait" -> "invalidate_body"
      [] l = "clear_wait"      -> "clear_body"
      [] l = "stats_wait"      -> "stats_body"

BodyLabel(l) ==
    CASE l = "get_wait"        -> "get_body"
      [] l = "set_wait"        -> "set_room"
      [] l = "invalidate_wait" -> "invalidate_body"
      [] l = "clear_wait"      -> "clear_body"
      [] l = "stats_wait"      -> "stats_body"

\* where a thread continues when its cache method returns
ReturnLabel(t, op) ==
    IF t \in ApiThreads THEN "idle"
    ELSE IF op = "get" THEN "after_get" ELSE "after_set"

\* get(query, df), lines 89-90: the thread computes the key
EnterGet(t, query, df) ==
    /\ pc' = [pc EXCEPT ![t] = "get_wait"]
    /\ frame' = [frame EXCEPT ![t] =
                    [op |-> "get", key |-> FingerprintOf[<<query, df>>]]]
    /\ ret' = [ret EXCEPT ![t] = NoOp]
    /\ UNCHANGED <<cache, lock, now>>

CallGet(t, query, df) == EnterGet(t, query, df) /\ UNCHANGED run

\* set(query, df, data, ttl), lines 115-124: the thread computes the key and
\* builds the entry
EnterSet(t, query, df, data, ttl_arg) ==
    /\ pc' = [pc EXCEPT ![t] = "set_wait"]
    /\ frame' = [frame EXCEPT ![t] =
                    [op |-> "set",
                     entry |-> CacheEntry(FingerprintOf[<<query, df>>], data,
                                          now, EffectiveTtl(ttl_arg)),
                     removed |-> 0]]
    /\ ret' = [ret EXCEPT ![t] = NoOp]
    /\ UNCHANGED <<cache, lock, now>>

CallSet(t, query, df, data, ttl_arg) ==
    EnterSet(t, query, df, data, ttl_arg) /\ UNCHANGED run

\* invalidate_by_query(query), lines 148-149
CallInvalidate(t, query) ==
    /\ pc' = [pc EXCEPT ![t] = "invalidate_wait"]
    /\ frame' = [frame EXCEPT ![t] =
                    [op |-> "invalidate", query_lower |-> Lower(Strip(query))]]
    /\ ret' = [ret EXCEPT ![t] = NoOp]
    /\ UNCHANGED <<cache, lock, now, run>>

\* clear()
CallClear(t) ==
    /\ pc' = [pc EXCEPT ![t] = "clear_wait"]
    /\ frame' = [frame EXCEPT ![t] = [op |-> "clear"]]
    /\ ret' = [ret EXCEPT ![t] = NoOp]
    /\ UNCHANGED <<cache, lock, now, run>>

\* stats()
CallStats(t) ==
    /\ pc' = [pc EXCEPT ![t] = "stats_wait"]
    /\ frame' = [frame EXCEPT ![t] = [op |-> "stats"]]
    /\ ret' = [ret EXCEPT ![t] = NoOp]
    /\ UNCHANGED <<cache, lock, now, run>>

\* with self.lock: the thread enters the block
Acquire(t) ==
    /\ pc[t] \in WaitLabels
    /\ LockFree
    /\ lock' = t
    /\ pc' = [pc EXCEPT ![t] = BodyLabel(pc[t])]
    /\ UNCHANGED <<cache, now, frame, ret, run>>

\* the thread keeps the lock when it leaves the block
LockKeptOnExit(t) == t

\* the holder of the lock when thread t has left its with block
LockOnExit(t) == NoThread

\* the thread leaves the with block and the method returns; r is the
\* history kept of the call
Return(t, r) ==
    /\ lock' = LockOnExit(t)
    /\ pc' = [pc EXCEPT ![t] = ReturnLabel(t, frame[t].op)]
    /\ frame' = [frame EXCEPT ![t] = NoneVal]
    /\ ret' = [ret EXCEPT ![t] = r]

\* get, lines 93-103; a request keeps the value in cached_result
GetBody(t) ==
    /\ pc[t] = "get_body"
    /\ LET r == GetLocked(cache, frame[t].key, now)
       IN  /\ cache' = r.cache
           /\ run' = IF t \in RunThreads
                     THEN [run EXCEPT ![t].cached_result = r.value]
                     ELSE run
    /\ Return(t, NoOp)
    /\ UNCHANGED now

\* set, lines 128-133
SetRoom(t) ==
    /\ pc[t] = "set_room"
    /\ cache' = MakeRoom(cache, now)
    /\ pc' = [pc EXCEPT ![t] = "set_store"]
    /\ frame' = [frame EXCEPT ![t].removed = Len(cache) - Len(MakeRoom(cache, now))]
    /\ UNCHANGED <<lock, now, ret, run>>

\* SetStore that leaves the entry already held under the key
SetStoreFirstWins(t) ==
    /\ pc[t] = "set_store"
    /\ cache' = StoreIfAbsent(cache, frame[t].entry)
    /\ Return(t, [op |-> "set", removed |-> frame[t].removed])
    /\ UNCHANGED <<now, run>>

\* set, lines 135-136
SetStore(t) ==
    /\ pc[t] = "set_store"
    /\ cache' = Store(cache, frame[t].entry)
    /\ Return(t, [op |-> "set", removed |-> frame[t].removed])
    /\ UNCHANGED <<now, run>>

\* invalidate_by_query, lines 151-166
InvalidateBody(t) ==
    /\ pc[t] = "invalidate_body"
    /\ cache' = InvalidateLocked(cache, frame[t].query_lower).cache
    /\ Return(t, NoOp)
    /\ UNCHANGED <<now, run>>

\* clear, lines 175-180
ClearBody(t) ==
    /\ pc[t] = "clear_body"
    /\ cache' = <<>>
    /\ Return(t, NoOp)
    /\ UNCHANGED <<now, run>>

\* stats, lines 189-200
StatsBody(t) ==
    /\ pc[t] = "stats_body"
    /\ Return(t, NoOp)
    /\ UNCHANGED <<cache, now, run>>

\* the steps of a cache method in progress
CacheStep(t) ==
    \/ Acquire(t)
    \/ GetBody(t)
    \/ SetRoom(t)
    \/ SetStore(t)
    \/ InvalidateBody(t)
    \/ ClearBody(t)
    \/ StatsBody(t)

\* the gets of key that have been called and have not read the dict yet
PendingGets(key) ==
    {u \in Threads : pc[u] \in {"get_wait", "get_body"} /\ frame[u].key = key}

\* one more get of key keeps access_count within the bound of the model,
\* whatever the pending gets find
CanGet(key) ==
    LET i == IndexOf(cache, key)
    IN  (IF i = 0 THEN 0 ELSE cache[i].access_count)
            + Cardinality(PendingGets(key)) < MaxAccess

\* one (query, df) per fingerprint
ThreadArgs == {<<QueryAgeUpper, DfA>>, <<QueryAgePadded, DfB>>, <<QuerySum, DfA>>}

ThreadCall(t) ==
    /\ pc[t] = "idle"
    /\ \/ \E a \in ThreadArgs : CanGet(FingerprintOf[a]) /\ CallGet(t, a[1], a[2])
       \/ \E a \in ThreadArgs : CallSet(t, a[1], a[2], Opaque("p1"), TtlNone)
       \/ \E q \in {QueryAgeUpper, QuerySum} : CallInvalidate(t, q)
       \/ CallClear(t)
       \/ CallStats(t)

\* the clock reaches the reading at which the entries created at 0 are expired
TickThreads ==
    /\ now = 0
    /\ now' = DefaultTtl + 1
    /\ UNCHANGED <<cache, lock, pc, frame, ret, run>>

NextThreads ==
    \/ \E t \in ApiThreads : ThreadCall(t)
    \/ \E t \in ApiThreads : CacheStep(t)
    \/ TickThreads

SpecThreads == Init /\ [][NextThreads]_vars

\* the steps of a method that holds the lock
(***************************************************************************)
(* SpecWriters: two threads that call set, each with its own choice of     *)
(* payload, for two fingerprints; the two spellings of the first are the   *)
(* same (query, dataset) for the cache.                                    *)
(***************************************************************************)
WriterArgs == {<<QueryAgeUpper, DfA>>, <<QueryAge, DfASameHead>>, <<QuerySum, DfA>>}

WriterCall(t) ==
    /\ pc[t] = "idle"
    /\ \E a \in WriterArgs, d \in Payloads : CallSet(t, a[1], a[2], d, TtlNone)

WriterStep(t) == Acquire(t) \/ SetRoom(t) \/ SetStore(t)

NextWriters ==
    \/ \E t \in ApiThreads : WriterCall(t)
    \/ \E t \in ApiThreads : WriterStep(t)
    \/ Tick

SpecWriters == Init /\ [][NextWriters]_vars

LockedStep(t) ==
    \/ GetBody(t)
    \/ SetRoom(t)
    \/ SetStore(t)
    \/ InvalidateBody(t)
    \/ ClearBody(t)
    \/ StatsBody(t)

\* a thread that holds the lock keeps running, and a thread that waits for
\* the lock is not passed over for ever when the lock is released again
\* and again
Fairness ==
    \A t \in ApiThreads : WF_vars(LockedStep(t)) /\ SF_vars(Acquire(t))

\* two threads and the calls of two fingerprints
FairArgs == {<<QueryAgeUpper, DfA>>, <<QuerySum, DfA>>}

FairCall(t) ==
    /\ pc[t] = "idle"
    /\ \/ \E a \in FairArgs : CanGet(FingerprintOf[a]) /\ CallGet(t, a[1], a[2])
       \/ \E a \in FairArgs : CallSet(t, a[1], a[2], Opaque("p1"), TtlNone)
       \/ CallInvalidate(t, QuerySum)
       \/ CallClear(t)
       \/ CallStats(t)

NextFair ==
    \/ \E t \in ApiThreads : FairCall(t)
    \/ \E t \in ApiThreads : CacheStep(t)

SpecThreadsFair == Init /\ [][NextFair]_vars /\ Fairness

(***************************************************************************)
(* The texts of a request.  A text is what produced it; Features is the    *)
(* content record the validator's patterns find in it.  The words field    *)
(* of the contents below lists the words that occur in a query of the      *)
(* model.                                                                  *)
(***************************************************************************)
NoFeatures ==
    [raw_len |-> 0, len |-> 0, hdr |-> FALSE, lst |-> FALSE, par |-> FALSE,
     num |-> FALSE, ins |-> 0, act |-> FALSE, act4 |-> FALSE, ana |-> {},
     semE |-> FALSE, semC |-> FALSE, semA |-> FALSE, ans |-> FALSE,
     words |-> {}]

TextIds ==
    {"TextEmpty", "TextShort", "TextLow", "TextMid", "TextHigh", "TextBasic",
     "ErrValidation", "ErrTimeout", "ErrRate", "TextNoContent"}

TextFeatures ==
    [id \in TextIds |->
        CASE id = "TextEmpty" -> NoFeatures
             \* "n/a"
          [] id = "TextShort" -> [NoFeatures EXCEPT !.raw_len = 3, !.len = 3]
             \* "The values look fine to me overall."
          [] id = "TextLow" -> [NoFeatures EXCEPT !.raw_len = 35, !.len = 35]
             \* "The mean age is 29.5 and the values range from 25 to 35 for
             \* the six rows."
          [] id = "TextMid" ->
                [NoFeatures EXCEPT !.raw_len = 73, !.len = 73, !.num = TRUE,
                                   !.words = {QueryAge}]
             \* "# Age report\n\nThe average age of the 6 employees is 29.5
             \* years, with a clear upward trend.\n\n- Youngest: 25\n- Oldest:
             \* 35\n\nWe recommend collecting more data before drawing
             \* conclusions."
          [] id = "TextHigh" ->
                [raw_len |-> 182, len |-> 182, hdr |-> TRUE, lst |-> TRUE,
                 par |-> TRUE, num |-> TRUE, ins |-> 1, act |-> TRUE,
                 act4 |-> TRUE, ana |-> {"data", "report"}, semE |-> FALSE,
                 semC |-> FALSE, semA |-> TRUE, ans |-> TRUE,
                 words |-> {QueryAge}]
             \* "There are 6 records. Age sum is 177."
          [] id = "TextBasic" ->
                [NoFeatures EXCEPT !.raw_len = 36, !.len = 36, !.num = TRUE,
                                   !.words = {QueryAge, QuerySum}]
             \* "Result validation failed" (crew.py line 37)
          [] id = "ErrValidation" ->
                [NoFeatures EXCEPT !.raw_len = 24, !.len = 24, !.ans = TRUE]
             \* "Connection timed out"
          [] id = "ErrTimeout" -> [NoFeatures EXCEPT !.raw_len = 20, !.len = 20]
             \* "Error code: 429 rate limit"
          [] id = "ErrRate" ->
                [NoFeatures EXCEPT !.raw_len = 26, !.len = 26, !.num = TRUE]
             \* "No response content found" (custom_groq_llm.py line 120)
          [] id = "TextNoContent" ->
                [NoFeatures EXCEPT !.raw_len = 25, !.len = 25]]

\* a text a pipeline or an exception carries
Raw(id) == [form |-> "raw", id |-> id]

\* _create_fallback_result, lines 177-186: the fallback pipeline's text in
\* the "# Fallback Analysis" banner
Banner(raw) == [form |-> "banner", raw |-> raw]

\* _create_fallback_result, lines 194-212: the "# Analysis Unavailable"
\* message around the error
Static(error) == [form |-> "static", error |-> error]

\* the banner of lines 177-186 around an empty text
BannerTemplate ==
    [NoFeatures EXCEPT !.raw_len = 266, !.len = 264, !.hdr = TRUE,
                       !.par = TRUE, !.ana = {"analysis", "data", "insights"},
                       !.semA = TRUE, !.ans = TRUE]

\* the message of lines 194-212 around an empty error
StaticTemplate ==
    [NoFeatures EXCEPT !.raw_len = 535, !.len = 533, !.hdr = TRUE,
                       !.lst = TRUE, !.par = TRUE, !.ana = {"analysis", "data"},
                       !.semA = TRUE, !.ans = TRUE]

\* the content of a template with a text formatted into it; the templates
\* contain no insight indicator
Embed(template, inner) ==
    [raw_len |-> template.raw_len + inner.raw_len,
     len     |-> template.len + inner.raw_len,
     hdr     |-> template.hdr \/ inner.hdr,
     lst     |-> template.lst \/ inner.lst,
     par     |-> template.par \/ inner.par,
     num     |-> template.num \/ inner.num,
     ins     |-> template.ins + inner.ins,
     act     |-> template.act \/ inner.act,
     act4    |-> template.act4 \/ inner.act4,
     ana     |-> template.ana \cup inner.ana,
     semE    |-> template.semE \/ inner.semE,
     semC    |-> template.semC \/ inner.semC,
     semA    |-> template.semA \/ inner.semA,
     ans     |-> template.ans \/ inner.ans,
     words   |-> template.words \cup inner.words]

RECURSIVE Features(_)
Features(text) ==
    CASE text.form = "raw"    -> TextFeatures[text.id]
      [] text.form = "banner" -> Embed(BannerTemplate, Features(text.raw))
      [] text.form = "static" -> Embed(StaticTemplate, Features(text.error))

\* analyze_data, lines 126-133: the text followed by the quality assessment
Annotate(text, validation) ==
    [form |-> "annotated", text |-> text,
     issues |-> Take(validation.issues, 3),
     suggestions |-> Take(validation.suggestions, 3)]

\* the texts a request can hand to the validator
ResultTexts ==
    {Raw(id) : id \in TextIds} \cup {Banner(Raw(id)) : id \in TextIds}
        \cup {Static(Raw(id)) : id \in TextIds}

\* validate_analysis_result on the texts and the queries of the requests
AnalysisValidations ==
    [text \in ResultTexts, query \in {Strip(q) : q \in Queries} |->
        ValidateAnalysisResult(Features(text), query)]

(***************************************************************************)
(* CustomCrew (scripts/crew.py) and analyze_data (app/routers/analysis.py).*)
(*                                                                         *)
(* A request thread executes one POST /analyze.  run[t] holds the locals   *)
(* of analyze_data and of CustomCrew.run, and the history of the request:  *)
(*   n_primary, n_fallback  the invocations of _execute_crew and of the    *)
(*                          fallback crew's kickoff so far                 *)
(*   all_raised             every invocation of _execute_crew raised       *)
(*   slept                  the durations of the sleeps of run             *)
(*   failed                 the failed invocations of _execute_crew: how   *)
(*                          each failed, the error recorded for it and the *)
(*                          sleep that followed it                         *)
(*   fallback_outcome       what the kickoff of the fallback crew did      *)
(*   prior                  the requests that had ended when this began    *)
(*   at                     the clock when the request began               *)
(*   origin                 where the text of the response comes from      *)
(* and, once the handler has returned, the history and the response.       *)
(***************************************************************************)
max_retries == 2

\* the object a crew's kickoff returns
CrewOutput(text) == [raw |-> text]

Raises(error) == [outcome |-> "raise", error |-> error]

Returns(result) == [outcome |-> "return", result |-> result]

\* what an invocation of _execute_crew may do
PrimaryOutcomes ==
    {Raises(Raw("ErrTimeout")), Raises(Raw("ErrRate")),
     Returns(NoneVal), Returns(CrewOutput(Raw("TextEmpty"))),
     Returns(CrewOutput(Raw("TextShort"))), Returns(CrewOutput(Raw("TextLow"))),
     Returns(CrewOutput(Raw("TextMid"))), Returns(CrewOutput(Raw("TextHigh")))}

\* what the kickoff of the fallback crew may do
FallbackOutcomes ==
    {Raises(Raw("ErrTimeout")), Returns(NoneVal),
     Returns(CrewOutput(Raw("TextEmpty"))), Returns(CrewOutput(Raw("TextShort"))),
     Returns(CrewOutput(Raw("TextBasic")))}

\* `result and result.raw`
HasRaw(result) == result # NoneVal /\ Features(result.raw).raw_len > 0

\* _validate_result, for the results of a crew (None or an object with raw)
ValidateResult(result) == HasRaw(result) /\ Features(result.raw).len >= 10

InRangeOffByOne(attempt) == attempt < max_retries

\* for attempt in range(self.max_retries + 1)
InRange(attempt) == attempt < max_retries + 1

\* validate_query_input; no query of the model matches a dangerous pattern
ValidateQueryInput(query) ==
    LET q == Strip(query)
    IN  IF Len(q) = 0 \/ Len(q) > 1000 \/ Len(q) < 3
        THEN [ok |-> FALSE, code |-> 400]
        ELSE [ok |-> TRUE, query |-> q]

QueryBlank == <<" ", " ">>

\* a table without rows
DfEmpty == DataFrame(<<"name", "age">>, <<0, 2>>, "none", "none", FALSE)

DfIsEmpty(df) == df.shape[1] = 0 \/ df.shape[2] = 0

\* the request's query and the content of uploaded_data when it arrives
RequestArgs ==
    {<<QueryAge, DfA>>, <<QueryAgeUpper, DfASameHead>>, <<QuerySum, DfB>>,
     <<QueryAge, DfEmpty>>, <<QueryBlank, DfA>>}

AnalysisResponse(query, analysis) ==
    [status |-> "success", query |-> query, analysis |-> analysis]

HttpError(code) == [status |-> "error", code |-> code]

NewRun(query, df, prior) ==
    [stage |-> "running", query |-> query, df |-> df, prior |-> prior,
     at |-> now, cached_result |-> NoneVal,
     attempt |-> 0, last_error |-> NoneVal, result |-> NoneVal,
     n_primary |-> 0, n_fallback |-> 0, all_raised |-> TRUE, slept |-> <<>>,
     failed |-> <<>>, fallback_outcome |-> NoneVal,
     analysis_text |-> NoneVal, validation |-> NoneVal,
     origin |-> "none", resp |-> NoneVal]

Ended == {u \in RunThreads : pc[u] = "done"}

FirstRequest == "req1"

\* the handlers are coroutines of one event loop and analyze_data never
\* awaits: a request begins when no other is in progress; req1 is the
\* request that arrives first
Admit(t) == t = FirstRequest \/ pc[FirstRequest] = "done"

\* the handler returns resp or raises it
Respond(t, r, resp) ==
    /\ pc' = [pc EXCEPT ![t] = "done"]
    /\ run' = [run EXCEPT ![t] =
                  [stage |-> "done", query |-> r.query, df |-> r.df,
                   prior |-> r.prior, at |-> r.at, attempt |-> r.attempt,
                   n_primary |-> r.n_primary,
                   n_fallback |-> r.n_fallback, all_raised |-> r.all_raised,
                   origin |-> r.origin, result |-> r.result, resp |-> resp]]

\* analyze_data, lines 87-105: up to the key of the lookup
Begin(t, query, df) ==
    /\ pc[t] = "idle"
    /\ LET v == ValidateQueryInput(query)
           q == IF v.ok THEN v.query ELSE query
           r == NewRun(q, df, Ended)
       IN  IF ~v.ok
           THEN /\ Respond(t, r, HttpError(v.code))
                /\ UNCHANGED <<cache, lock, now, frame, ret>>
           ELSE IF DfIsEmpty(df)
           THEN /\ Respond(t, r, HttpError(404))
                /\ UNCHANGED <<cache, lock, now, frame, ret>>
           ELSE /\ run' = [run EXCEPT ![t] = r]
                /\ EnterGet(t, q, df)

StartRequest(t, query, df) == Admit(t) /\ Begin(t, query, df)

\* the request invokes _execute_crew for the attempt of r
InvokePrimary(t, r) ==
    /\ pc' = [pc EXCEPT ![t] = "primary"]
    /\ run' = [run EXCEPT ![t] = [r EXCEPT !.n_primary = @ + 1]]

\* the request invokes the kickoff of the fallback crew
InvokeFallback(t, r) ==
    /\ pc' = [pc EXCEPT ![t] = "fallback"]
    /\ run' = [run EXCEPT ![t] = [r EXCEPT !.n_fallback = @ + 1]]

\* the for loop of run goes to its next iteration, or ends at line 52
NextIteration(t, r) ==
    IF InRange(r.attempt + 1)
    THEN InvokePrimary(t, [r EXCEPT !.attempt = @ + 1])
    ELSE InvokeFallback(t, r)

\* analyze_data, lines 106-115
AfterGet(t) ==
    /\ pc[t] = "after_get"
    /\ IF run[t].cached_result # NoneVal
       THEN Respond(t, [run[t] EXCEPT !.origin = "cache"],
                    AnalysisResponse(run[t].query, run[t].cached_result))
       ELSE InvokePrimary(t, run[t])
    /\ UNCHANGED <<cache, lock, now, frame, ret>>

\* a failed invocation of _execute_crew, not followed by a sleep so far
Failure(kind, error) == [kind |-> kind, error |-> error, slept |-> 0]

PrimaryRaisesAlwaysSleeps(t, error) ==
    /\ pc[t] = "primary"
    /\ pc' = [pc EXCEPT ![t] = "sleep"]
    /\ run' = [run EXCEPT ![t].last_error = error,
                          ![t].failed = Append(@, Failure("raised", error))]
    /\ UNCHANGED <<cache, lock, now, frame, ret>>

\* run, lines 40-48: _execute_crew raises
PrimaryRaises(t, error) ==
    /\ pc[t] = "primary"
    /\ LET r == [run[t] EXCEPT !.last_error = error,
                               !.failed = Append(@, Failure("raised", error))]
       IN  IF r.attempt < max_retries
           THEN /\ pc' = [pc EXCEPT ![t] = "sleep"]
                /\ run' = [run EXCEPT ![t] = r]
           ELSE NextIteration(t, r)
    /\ UNCHANGED <<cache, lock, now, frame, ret>>

\* run, line 47: time.sleep(attempt + 1) returns
Sleep(t) ==
    /\ pc[t] = "sleep"
    /\ NextIteration(t, [run[t] EXCEPT
                            !.slept = Append(@, run[t].attempt + 1),
                            !.failed[Len(run[t].failed)].slept = run[t].attempt + 1])
    /\ UNCHANGED <<cache, lock, now, frame, ret>>

PrimaryReturnsGoesOn(t, result) ==
    /\ pc[t] = "primary"
    /\ IF ValidateResult(result)
       THEN NextIteration(t, [run[t] EXCEPT !.all_raised = FALSE,
                                           !.result = result,
                                           !.origin = "primary"])
       ELSE NextIteration(t, [run[t] EXCEPT
               !.all_raised = FALSE,
               !.last_error = Raw("ErrValidation"),
               !.failed = Append(@, Failure("rejected", Raw("ErrValidation")))])
    /\ UNCHANGED <<cache, lock, now, frame, ret>>

\* run, lines 29-38: _execute_crew returns
PrimaryReturns(t, result) ==
    /\ pc[t] = "primary"
    /\ LET r == [run[t] EXCEPT !.all_raised = FALSE]
       IN  IF ValidateResult(result)
           THEN /\ pc' = [pc EXCEPT ![t] = "validate"]
                /\ run' = [run EXCEPT ![t] =
                              [r EXCEPT !.result = result, !.origin = "primary"]]
           ELSE NextIteration(t, [r EXCEPT
                   !.last_error = Raw("ErrValidation"),
                   !.failed = Append(@, Failure("rejected", Raw("ErrValidation")))])
    /\ UNCHANGED <<cache, lock, now, frame, ret>>

FallbackEndsOwnError(t, outcome) ==
    /\ pc[t] = "fallback"
    /\ LET ok   == outcome.outcome = "return" /\ HasRaw(outcome.result)
           text == IF ok THEN Banner(outcome.result.raw)
                   ELSE IF outcome.outcome = "raise" THEN Static(outcome.error)
                   ELSE Static(run[t].last_error)
       IN  run' = [run EXCEPT ![t].result = CrewOutput(text),
                              ![t].origin = IF ok THEN "fallback" ELSE "static",
                              ![t].fallback_outcome = outcome]
    /\ pc' = [pc EXCEPT ![t] = "validate"]
    /\ UNCHANGED <<cache, lock, now, frame, ret>>

\* _create_fallback_result, lines 175-220: the kickoff ends
FallbackEnds(t, outcome) ==
    /\ pc[t] = "fallback"
    /\ LET ok   == outcome.outcome = "return" /\ HasRaw(outcome.result)
           text == IF ok THEN Banner(outcome.result.raw)
                   ELSE Static(run[t].last_error)
       IN  run' = [run EXCEPT ![t].result = CrewOutput(text),
                              ![t].origin = IF ok THEN "fallback" ELSE "static",
                              ![t].fallback_outcome = outcome]
    /\ pc' = [pc EXCEPT ![t] = "validate"]
    /\ UNCHANGED <<cache, lock, now, frame, ret>>

TooLowBelowValid(validation) == FLt(validation.score, f_0_4)

\* analyze_data, lines 135-137
TooLow(validation) == FLt(validation.score, f_0_3)

\* analyze_data, lines 117-142: from the result of run to the key and the
\* entry of the cache write
Validate(t) ==
    /\ pc[t] = "validate"
    /\ LET r == run[t]
       IN  IF ~HasRaw(r.result)
           THEN /\ Respond(t, r, HttpError(500))
                /\ UNCHANGED <<cache, lock, now, frame, ret>>
           ELSE
           \E validation \in {AnalysisValidations[r.result.raw, r.query]} :
           LET text == IF validation.is_valid THEN r.result.raw
                       ELSE Annotate(r.result.raw, validation)
               v    == [r EXCEPT !.analysis_text = text,
                                 !.validation = validation]
           IN  IF ~validation.is_valid /\ TooLow(validation)
               THEN /\ Respond(t, v, HttpError(500))
                    /\ UNCHANGED <<cache, lock, now, frame, ret>>
               ELSE /\ run' = [run EXCEPT ![t] = v]
                    /\ EnterSet(t, r.query, r.df, text, TtlNone)

\* analyze_data, lines 144-148
AfterSet(t) ==
    /\ pc[t] = "after_set"
    /\ Respond(t, run[t], AnalysisResponse(run[t].query, run[t].analysis_text))
    /\ UNCHANGED <<cache, lock, now, frame, ret>>

\* the steps of a request in progress
RequestStepOf(t, primary, fallback) ==
    \/ AfterGet(t)
    \/ \E o \in primary :
          \/ o.outcome = "raise" /\ PrimaryRaises(t, o.error)
          \/ o.outcome = "return" /\ PrimaryReturns(t, o.result)
    \/ Sleep(t)
    \/ \E o \in fallback : FallbackEnds(t, o)
    \/ Validate(t)
    \/ AfterSet(t)
    \/ Acquire(t)
    \/ GetBody(t)
    \/ SetRoom(t)
    \/ SetStore(t)

RequestStep(t) == RequestStepOf(t, PrimaryOutcomes, FallbackOutcomes)

\* the clock advances between two requests (a request is short with
\* respect to the readings of TimeGrid)
TickOrch ==
    /\ \A t \in RunThreads : pc[t] \in {"idle", "done"}
    /\ Tick

NextOrch ==
    \/ \E t \in RunThreads, a \in RequestArgs : StartRequest(t, a[1], a[2])
    \/ \E t \in RunThreads : RequestStep(t)
    \/ TickOrch

SpecOrch == Init /\ [][NextOrch]_vars

(***************************************************************************)
(* SpecRun: one request, whose every step is taken in the end: the         *)
(* invocations of the pipelines end, by returning or by raising, and       *)
(* time.sleep returns.                                                     *)
(***************************************************************************)
NextRun ==
    \/ \E a \in RequestArgs : StartRequest(FirstRequest, a[1], a[2])
    \/ RequestStep(FirstRequest)

SpecRun == Init /\ [][NextRun]_vars /\ WF_vars(RequestStep(FirstRequest))

(***************************************************************************)
(* SpecOrchNoContent: the requests of SpecOrch with a primary pipeline     *)
(* whose final output may be what CustomGroqLLM.call returns for a 200     *)
(* response without choices.                                               *)
(***************************************************************************)
NoContentArgs == {<<QueryAge, DfA>>, <<QuerySum, DfB>>}

NoContentPrimary ==
    {Raises(Raw("ErrTimeout")), Returns(CrewOutput(Raw("TextNoContent"))),
     Returns(CrewOutput(Raw("TextShort"))), Returns(CrewOutput(Raw("TextHigh")))}

NoContentFallback ==
    {Raises(Raw("ErrTimeout")), Returns(CrewOutput(Raw("TextBasic")))}

NextNoContent ==
    \/ \E t \in RunThreads, a \in NoContentArgs : StartRequest(t, a[1], a[2])
    \/ \E t \in RunThreads : RequestStepOf(t, NoContentPrimary, NoContentFallback)
    \/ TickOrch

SpecOrchNoContent == Init /\ [][NextNoContent]_vars

(***************************************************************************)
(* SpecOrchConc: two requests that overlap, as when analyze_data and the   *)
(* cache are run by one thread per request.  It contains the behaviours of *)
(* SpecOrch for its inputs.                                                *)
(***************************************************************************)
ConcArgs == {<<QueryAge, DfA>>, <<QuerySum, DfB>>}

ConcPrimary ==
    {Raises(Raw("ErrTimeout")), Returns(CrewOutput(Raw("TextShort"))),
     Returns(CrewOutput(Raw("TextMid"))), Returns(CrewOutput(Raw("TextHigh")))}

ConcFallback ==
    {Raises(Raw("ErrTimeout")), Returns(CrewOutput(Raw("TextBasic")))}

NextConc ==
    \/ \E t \in RunThreads, a \in ConcArgs : Begin(t, a[1], a[2])
    \/ \E t \in RunThreads : RequestStepOf(t, ConcPrimary, ConcFallback)

SpecOrchConc == Init /\ [][NextConc]_vars

(***************************************************************************)
(* CustomGroqLLM.call (custom_groq_llm.py): one call by one thread.  The   *)
(* locals of the call are in frame, what it returned or raised in ret.     *)
(***************************************************************************)
\* max_retries of call, line 83
call_max_retries == 5

\* line 84
retry_delay == 30

\* an exception: its class and whether its str() contains
\* "rate_limit_exceeded" or "429"
Exc(class, message, mentions) ==
    [class |-> class, message |-> message, mentions |-> mentions]

\* the classes caught by except requests.exceptions.RequestException
RequestExceptions == {"Timeout", "ConnectionError", "RequestsJSONDecodeError"}

\* what response.json() raises for a body that is not JSON: a
\* RequestException since requests 2.27, a plain ValueError before
JsonErrorClasses == {"RequestsJSONDecodeError", "JSONDecodeError"}

\* a response: status_code, the shape of its body, the content of the
\* message of its first choice, "rate_limit_exceeded" in response.text,
\* "429" in response.text
Response(status, body, content, marker, text_429) ==
    [kind |-> "response", status_code |-> status, body |-> body,
     content |-> content, rate_marker |-> marker, text_429 |-> text_429]

\* requests.post raises
PostRaises(exc) == [kind |-> "exception", exc |-> exc]

LlmOutcomes ==
    {Response(200, "choices", "answer one", FALSE, FALSE),
     Response(200, "choices", "answer two", FALSE, FALSE),
     Response(200, "no_choices", "", FALSE, FALSE),
     Response(200, "not_json", "", FALSE, FALSE),
     Response(200, "no_message", "", FALSE, FALSE),
     Response(429, "error", "", FALSE, TRUE),
     Response(400, "error", "", FALSE, FALSE),
     Response(400, "error", "", FALSE, TRUE),
     Response(400, "error", "", TRUE, FALSE),
     Response(302, "error", "", FALSE, FALSE),
     Response(500, "error", "", FALSE, FALSE),
     Response(503, "error", "", TRUE, FALSE),
     PostRaises(Exc("Timeout", "timed out", FALSE)),
     PostRaises(Exc("ConnectionError", "connection refused", FALSE)),
     PostRaises(Exc("RuntimeError", "status 429", TRUE)),
     PostRaises(Exc("RuntimeError", "unexpected", FALSE))}

\* the function ends without a return statement: the caller gets None
ReturnsNone == [outcome |-> "none"]

\* the iteration sleeps and the loop goes on
Sleeps(wait) == [outcome |-> "sleep", wait |-> wait]

\* retry < max_retries that lets the last iteration sleep
HasRetriesLeftOffByOne(retry) == retry < call_max_retries

\* a guard that gives up one iteration earlier
HasRetriesLeftShort(retry) == retry < call_max_retries - 2

\* retry < max_retries - 1, lines 127, 145, 155, 164, 172
HasRetriesLeft(retry) == retry < call_max_retries - 1

\* a delay that counts the attempts from 0
WaitTimeFromZero(retry) == retry_delay * retry

\* a delay that doubles
WaitTimeDoubling(retry) == retry_delay * 2 ^ retry

\* wait_time = retry_delay * (retry + 1), lines 128, 146, 156, 165, 174
WaitTime(retry) == retry_delay * (retry + 1)

\* the try block, lines 91-150, for what requests.post gave; json_error is
\* the class response.json() raises
TryBlock(retry, o, json_error) ==
    IF o.kind = "exception" THEN Raises(o.exc)
    ELSE IF o.status_code = 200
    THEN CASE o.body = "choices" -> Returns(o.content)
           [] o.body = "no_choices" -> Returns("No response content found")
           [] o.body = "not_json" ->
                Raises(Exc(json_error, "Expecting value", FALSE))
           [] OTHER -> Raises(Exc("KeyError", "message", FALSE))
    ELSE IF o.status_code = 429 \/ o.rate_marker
    THEN IF HasRetriesLeft(retry)
         THEN Sleeps(WaitTime(retry))
         ELSE Raises(Exc("ValueError", "rate limit exceeded after",
                         o.rate_marker \/ o.text_429))
    ELSE IF 400 <= o.status_code /\ o.status_code < 500 /\ o.status_code # 429
    THEN Raises(Exc("ValueError", "returned error", o.text_429))
    ELSE IF HasRetriesLeft(retry)
         THEN Sleeps(WaitTime(retry))
         ELSE Raises(Exc("ValueError", "returned error", o.text_429))

\* the clause of RequestException written before that of its subclass
\* Timeout
ExceptClausesBaseFirst(retry, exc) ==
    IF exc.class \in RequestExceptions
    THEN IF HasRetriesLeft(retry)
         THEN Sleeps(WaitTime(retry))
         ELSE Raises(Exc("ValueError", "request failed", exc.mentions))
    ELSE IF HasRetriesLeft(retry) /\ exc.mentions
         THEN Sleeps(WaitTime(retry))
         ELSE Raises(exc)

\* the except clauses, lines 152-179, for an exception of the try block
ExceptClauses(retry, exc) ==
    IF exc.class = "Timeout"
    THEN IF HasRetriesLeft(retry)
         THEN Sleeps(WaitTime(retry))
         ELSE Raises(Exc("ValueError", "request timeout after", FALSE))
    ELSE IF exc.class \in RequestExceptions
    THEN IF HasRetriesLeft(retry)
         THEN Sleeps(WaitTime(retry))
         ELSE Raises(Exc("ValueError", "request failed", exc.mentions))
    ELSE IF HasRetriesLeft(retry) /\ exc.mentions
         THEN Sleeps(WaitTime(retry))
         ELSE Raises(exc)

\* one iteration of the loop, lines 86-179
Iteration(retry, o, json_error) ==
    LET r == TryBlock(retry, o, json_error)
    IN  IF r.outcome = "raise" THEN ExceptClauses(retry, r.error) ELSE r

\* the call has ended: what it returned or raised, the outcomes of its
\* requests and the arguments of its time.sleep calls
CallEnds(result, history, slept) ==
    /\ pc' = [pc EXCEPT ![LlmThread] = "idle"]
    /\ frame' = [frame EXCEPT ![LlmThread] = NoneVal]
    /\ ret' = [ret EXCEPT ![LlmThread] =
                  [op |-> "call", result |-> result, history |-> history,
                   slept |-> slept]]

\* call(prompt), lines 49-86: up to the first iteration
LlmCall ==
    /\ pc[LlmThread] = "idle"
    /\ ret[LlmThread] = NoOp
    /\ pc' = [pc EXCEPT ![LlmThread] = "post"]
    /\ frame' = [frame EXCEPT ![LlmThread] =
                    [op |-> "call", retry |-> 0, wait_time |-> 0,
                     history |-> <<>>, slept |-> <<>>]]
    /\ UNCHANGED <<cache, lock, now, ret, run>>

\* requests.post ends with o and the iteration handles it
Post(o, json_error) ==
    /\ pc[LlmThread] = "post"
    /\ LET f == frame[LlmThread]
           r == Iteration(f.retry, o, json_error)
           h == Append(f.history, o)
       IN  IF r.outcome = "sleep"
           THEN /\ pc' = [pc EXCEPT ![LlmThread] = "backoff"]
                /\ frame' = [frame EXCEPT ![LlmThread] =
                                [f EXCEPT !.history = h, !.wait_time = r.wait]]
                /\ UNCHANGED ret
           ELSE CallEnds(r, h, f.slept)
    /\ UNCHANGED <<cache, lock, now, run>>

\* time.sleep(wait_time) returns and the loop takes its next value; a loop
\* that runs out of values ends the function, which returns None
Backoff ==
    /\ pc[LlmThread] = "backoff"
    /\ LET f == frame[LlmThread]
           slept == Append(f.slept, f.wait_time)
       IN  IF f.retry + 1 < call_max_retries
           THEN /\ pc' = [pc EXCEPT ![LlmThread] = "post"]
                /\ frame' = [frame EXCEPT ![LlmThread] =
                                [f EXCEPT !.retry = f.retry + 1,
                                          !.slept = slept]]
                /\ UNCHANGED ret
           ELSE CallEnds(ReturnsNone, f.history, slept)
    /\ UNCHANGED <<cache, lock, now, run>>

NextLlm ==
    \/ LlmCall
    \/ \E o \in LlmOutcomes, e \in JsonErrorClasses : Post(o, e)
    \/ Backoff

\* requests.post ends within its timeout and time.sleep returns
SpecLlm == Init /\ [][NextLlm]_vars /\ WF_vars(NextLlm)

(***************************************************************************)
(* SpecValidator: one thread calls validate_analysis_result on a content   *)
(* and a query, or validate_visualization_code on a code and the columns   *)
(* of a dataset.                                                           *)
(*                                                                         *)
(* The contents are those of texts of five kinds: empty or blank; 30       *)
(* characters; 49 characters followed by 10 of whitespace; 400 characters; *)
(* 10001 characters.  What a content holds is chosen freely as far as a    *)
(* text of that length can hold it; semC, ans and the count of             *)
(* "correlation" among the insight indicators follow from the analysis     *)
(* indicators that occur, as they do in a text.                            *)
(***************************************************************************)
QueryMeanAge == <<"m", "e", "a", "n", " ", "a", "g", "e", "?">>

ValidatorQueries == {QueryAge, QuerySum, QueryMeanAge}

Content(raw_len, len, hdr, lst, par, num, others, action, ana, sem, words) ==
    [raw_len |-> raw_len, len |-> len, hdr |-> hdr, lst |-> lst, par |-> par,
     num |-> num,
     ins |-> others + (IF "correlation" \in ana THEN 1 ELSE 0),
     act |-> action # "none", act4 |-> action = "recommend",
     ana |-> ana, semE |-> sem,
     semC |-> ana \cap {"correlation", "relationship", "comparison"} # {},
     semA |-> sem,
     ans |-> ana \cap {"analysis", "report", "results", "findings"} # {},
     words |-> words]

EmptyContents == {NoFeatures, [NoFeatures EXCEPT !.raw_len = 3]}

ShortContents ==
    {Content(30, 30, hdr, FALSE, FALSE, num, 0, action, {}, FALSE, words) :
        hdr \in BOOLEAN, num \in BOOLEAN,
        action \in {"none", "action", "recommend"},
        words \in {{}, {QueryAge}}}

PaddedContents ==
    {Content(59, 49, hdr, lst, par, num, 0, action, {}, FALSE, {}) :
        hdr \in BOOLEAN, lst \in BOOLEAN, par \in BOOLEAN, num \in BOOLEAN,
        action \in {"none", "recommend"}}

AnaChoices == {{}, {"analysis", "data"}, AnalysisIndicators}

RichContents ==
    {Content(400, 400, hdr, lst, par, num, others, action, ana, sem, words) :
        hdr \in BOOLEAN, lst \in BOOLEAN, par \in BOOLEAN, num \in BOOLEAN,
        others \in {0, 3, 6}, action \in {"none", "recommend"},
        ana \in AnaChoices, sem \in BOOLEAN,
        words \in {{}, {QueryAge}, {QueryAge, <<"m", "e", "a", "n">>}}}

LongContents ==
    {Content(10001, 10001, all, all, all, num, others, action, ana, sem, words) :
        all \in BOOLEAN, num \in BOOLEAN, others \in {0, 6},
        action \in {"none", "recommend"}, ana \in AnaChoices,
        sem \in BOOLEAN, words \in {{}, {QueryAge}}}

\* contents of exactly the minimum and the maximum length
BoundaryContents ==
    {Content(l, l, hdr, lst, par, TRUE, 0, action, {}, FALSE, {}) :
        l \in {min_content_length, max_content_length},
        hdr \in BOOLEAN, lst \in BOOLEAN, par \in BOOLEAN,
        action \in {"none", "recommend"}}

Contents ==
    EmptyContents \cup ShortContents \cup PaddedContents \cup RichContents
        \cup LongContents \cup BoundaryContents

\* the parts of a line of visualization code
CodeTargets == {<<"f", "i", "g">>, <<"f">>}

CodeCalls == {<<" ", "=", " ", "p", "x", ".", "b", "a", "r", "(">>, <<" ", "=", " ", "g", "o", ".", "B", "a", "r", "(">>, <<" ", "=", " ", "p", "l", "t", ".", "b", "a", "r", "(">>}

CodeFrames == {<<"d", "f">>, <<"d">>, <<"p", "d", ".", "r", "e", "a", "d", "_", "c", "s", "v", "(", "'", "t", "'", ")">>}

CodeArgs ==
    {<<>>, <<",", " ", "x", "=", "'", "A", "'", ",", " ", "y", "=", "'", "B", "'">>, <<",", " ", "x", "=", "'", "A", "'", ",", " ", "y", "=", "'", "Z", "'">>,
     <<",", " ", "x", "=", "d", "f", "[", "'", "A", "'", "]", ",", " ", "y", "=", "d", "f", "[", "'", "Z", "'", "]">>,
     <<",", " ", "x", "=", "d", "f", ".", "A", ",", " ", "y", "=", "d", "f", ".", "B">>, <<",", " ", "x", "=", "[", "1", ",", "2">>}

CodeClosers == {<<>>, <<")">>, <<")", ")">>, <<")", "'">>}

Codes ==
    {<<>>, <<" ", " ">>}
        \cup {t \o c \o f \o a \o e :
                t \in CodeTargets, c \in CodeCalls, f \in CodeFrames,
                a \in CodeArgs, e \in CodeClosers}

ColumnLists == {<<<<"A">>, <<"B">>>>, <<<<"A">>, <<"Z">>>>}

\* validator.validate_analysis_result(content, query)
ValidateAnalysis(content, query) ==
    /\ pc[ValidatorThread] = "idle"
    /\ ret[ValidatorThread] = NoOp
    /\ ret' = [ret EXCEPT ![ValidatorThread] =
                  [op |-> "validate_analysis_result", content |-> content,
                   query |-> query,
                   result |-> ValidateAnalysisResult(content, query)]]
    /\ UNCHANGED <<cache, lock, now, pc, frame, run>>

\* validator.validate_visualization_code(code, df_columns)
ValidateVisualization(code, df_columns) ==
    /\ pc[ValidatorThread] = "idle"
    /\ ret[ValidatorThread] = NoOp
    /\ ret' = [ret EXCEPT ![ValidatorThread] =
                  [op |-> "validate_visualization_code", code |-> code,
                   df_columns |-> df_columns,
                   result |-> ValidateVisualizationCode(code, df_columns)]]
    /\ UNCHANGED <<cache, lock, now, pc, frame, run>>

NextValidator ==
    \/ \E content \in Contents, query \in ValidatorQueries :
          ValidateAnalysis(content, query)
    \/ \E code \in Codes, df_columns \in ColumnLists :
          ValidateVisualization(code, df_columns)

SpecValidator == Init /\ [][NextValidator]_vars

(***************************************************************************)
(* Properties of the cache.                                                *)
(***************************************************************************)
\* the call of the API thread that returned last, and the one returning now
LastCall == ret[ApiThread]

ThisCall == ret'[ApiThread]

\* the normalized query an entry was stored under
StoredQuery(entry) == entry.key.md5.combined[1]

EntriesOfQuery(c, query_lower) ==
    {i \in DOMAIN c : StoredQuery(c[i]) = query_lower}

\* C9: an entry stored by set with ttl = 0 is already expired: the next get
\* of the same fingerprint returns None.
C9_ZeroTtlAbsentOnNextGet ==
    [][(/\ LastCall.op = "set"
        /\ LastCall.ttl_arg = TtlOf(0)
        /\ ThisCall.op = "get"
        /\ ThisCall.key = LastCall.key)
       => ThisCall.value = NoneVal]_vars

\* C10: invalidate_by_query(q) removes exactly the entries stored under a
\* query whose normalized form is the normalized q, whatever the dataset,
\* and returns how many it removed.
C10_InvalidateRemovesQueryEntries ==
    [][(ThisCall.op = "invalidate" /\ ThisCall # LastCall)
       => /\ ThisCall.value =
                 Cardinality(EntriesOfQuery(cache, ThisCall.query_lower))
          /\ cache' = SelectSeq(cache,
                 LAMBDA e : StoredQuery(e) # ThisCall.query_lower)]_vars

\* C8: whenever no method holds the lock, the cache has at most max_size
\* entries, also when several threads call get, set, invalidate_by_query,
\* clear and stats concurrently.
C8_CapacityInvariant == lock = NoThread => Len(cache) <= MaxSize

\* a set has just returned that found the cache full, removed an entry and
\* left it full again
C8_Witness ==
    \E t \in ApiThreads :
        /\ pc[t] = "idle"
        /\ ret[t].op = "set"
        /\ ret[t].removed >= 1
        /\ lock = NoThread
        /\ Len(cache) = MaxSize
        /\ pc[CHOOSE u \in ApiThreads : u # t] # "idle"

\* the data hash a key was computed from
DataHashOf(key) == key.md5.combined[3]

\* the last call was a get or a set with a dataset whose hashing raised
FaultingCall(op) == LastCall.op = op /\ LastCall.fault # NoneVal

\* C16: when hashing the dataset fails, get and set do not raise: they
\* compute their key from the constant "error_hash" and complete, the set
\* with its entry stored and the get with a payload or None returned.
C16_FaultsAbsorbed ==
    /\ FaultingCall("set") =>
          /\ DataHashOf(LastCall.key) = ErrorHash
          /\ \E i \in DOMAIN cache :
                cache[i].key = LastCall.key /\ cache[i].data = LastCall.data
    /\ FaultingCall("get") =>
          /\ DataHashOf(LastCall.key) = ErrorHash
          /\ LastCall.value \in Payloads \cup {NoneVal}

\* a get with a dataset whose hashing raised has completed, in a cache that
\* holds an entry stored under the constant and one stored under an md5
C16_Witness ==
    /\ FaultingCall("get")
    /\ \E i \in DOMAIN cache : DataHashOf(cache[i].key) = ErrorHash
    /\ \E i \in DOMAIN cache : DataHashOf(cache[i].key) # ErrorHash

\* C17: for a dataset whose hashing raises the cache always misses: every
\* get(q, d) with such a dataset returns None, whatever was set before, also
\* with another such dataset.
C17_OddDatasetsAlwaysMiss ==
    FaultingCall("get") => LastCall.value = NoneVal

\* the entries of c stored under key
EntriesOfKey(c, key) == {i \in DOMAIN c : c[i].key = key}

\* the threads that leave the locked section of a set for key in this step
Writers(key) ==
    {t \in ApiThreads : /\ pc[t] = "set_store"
                        /\ pc'[t] = "idle"
                        /\ frame[t].entry.key = key}

\* C18: concurrent sets of one fingerprint are last-writer-wins: the cache
\* never holds two entries for a fingerprint, a set that leaves its locked
\* section leaves its own payload there, and the payload stays until the
\* next set for the fingerprint leaves its locked section: the payload held
\* is that of the set that acquired the lock last.
C18_LastWriterWins ==
    [][\A a \in WriterArgs :
         LET key == FingerprintOf[a]
         IN  /\ Cardinality(EntriesOfKey(cache', key)) <= 1
             /\ \A t \in Writers(key) :
                   \E i \in EntriesOfKey(cache', key) :
                       cache'[i] = frame[t].entry
             /\ Writers(key) = {} =>
                   \A i \in EntriesOfKey(cache', key) :
                       \E j \in EntriesOfKey(cache, key) :
                           cache'[i].data = cache[j].data]_vars

\* two sets of one fingerprint overlap: thread u built its entry first, the
\* other thread built its entry (another payload) later and has stored it,
\* and u is in its locked section about to store
C18_Witness ==
    \E u \in ApiThreads :
        /\ pc[u] = "set_store"
        /\ lock = u
        /\ \A t \in ApiThreads \ {u} : pc[t] = "idle" /\ ret[t].op = "set"
        /\ \E i \in EntriesOfKey(cache, frame[u].entry.key) :
              /\ cache[i].data # frame[u].entry.data
              /\ cache[i].timestamp > frame[u].entry.timestamp

\* C11: round trip: get(q, d) right after set(q, d, p) with the default
\* (positive) TTL, before the TTL has elapsed, returns p, whatever the cache
\* held before the set.
C11_RoundTrip ==
    [][(/\ LastCall.op = "set"
        /\ LastCall.ttl_arg = TtlNone
        /\ ThisCall.op = "get"
        /\ ThisCall.key = LastCall.key)
       => LET i == IndexOf(cache, LastCall.key)
          IN  /\ i # 0
              /\ now - cache[i].timestamp <= DefaultTtl
                    => ThisCall.value = LastCall.data]_vars

\* a get has returned the payload of an entry created at the current clock
\* reading, after time has passed, in a cache that is full
C11_Witness ==
    /\ LastCall.op = "get"
    /\ LastCall.value \in Payloads
    /\ Len(cache) = MaxSize
    /\ now > 0
    /\ LET i == IndexOf(cache, LastCall.key)
       IN  /\ i # 0
           /\ cache[i].timestamp = now
           /\ cache[i].access_count = 1

PipelineLabels == {"primary", "sleep", "fallback"}

\* C15: a request that is inside a pipeline invocation, a backend request
\* or a backoff sleep does not hold the cache lock, whatever the other
\* requests do.
C15_LockNotHeldAcrossPipeline ==
    \A t \in RunThreads : pc[t] \in PipelineLabels => lock # t

\* a request is inside _execute_crew while the other one is in the body of
\* set, holding the lock
C15_Witness ==
    \E t \in RunThreads, u \in RunThreads :
        /\ pc[t] = "primary"
        /\ run[t].n_primary = 2
        /\ pc[u] = "set_store"
        /\ lock = u

(***************************************************************************)
(* Properties of CustomGroqLLM.call.                                       *)
(***************************************************************************)
LlmCalling == pc[LlmThread] \in {"post", "backoff"}

LlmEnded == ret[LlmThread].op = "call"

\* the requests sent so far by the call
LlmHistory ==
    IF LlmCalling THEN frame[LlmThread].history
    ELSE IF LlmEnded THEN ret[LlmThread].history ELSE <<>>

\* the waits done so far by the call
LlmSlept ==
    IF LlmCalling THEN frame[LlmThread].slept
    ELSE IF LlmEnded THEN ret[LlmThread].slept ELSE <<>>

RECURSIVE SumSeq(_)
SumSeq(q) == IF q = <<>> THEN 0 ELSE q[1] + SumSeq(Tail(q))

\* C19: whatever the backend answers (200, 429, other 4xx, 5xx, timeout,
\* transport failure, in any mix), a call sends at most 5 requests, counted
\* together for all kinds of failure, and it ends, by returning a text or
\* by raising an error.
C19_CeilingAndTermination ==
    /\ [](Len(LlmHistory) <= 5)
    /\ [](LlmEnded =>
             ret[LlmThread].result.outcome \in {"return", "raise"})
    /\ (LlmCalling ~> LlmEnded)

\* a call has ended after five requests that failed in four different ways
C19_Witness ==
    /\ LlmEnded
    /\ Len(LlmHistory) = 5
    /\ Cardinality({LlmHistory[i] : i \in 1..5}) >= 4
    /\ \E i \in 1..5 : LlmHistory[i].kind = "exception"
    /\ \E i \in 1..5 :
          LlmHistory[i].kind = "response" /\ LlmHistory[i].status_code = 429

GotStatus(i, status) ==
    /\ i \in DOMAIN LlmHistory
    /\ LlmHistory[i].kind = "response"
    /\ LlmHistory[i].status_code = status

\* the call has ended after three 429 responses and a 200 response with a
\* choice
ThreeRateLimitsThenOk ==
    /\ LlmEnded
    /\ Len(LlmHistory) = 4
    /\ \A i \in 1..3 : GotStatus(i, 429)
    /\ GotStatus(4, 200)
    /\ LlmHistory[4].body = "choices"

ClientError(o) ==
    /\ o.kind = "response"
    /\ 400 <= o.status_code /\ o.status_code < 500 /\ o.status_code # 429
    /\ ~o.rate_marker

\* C22: a 4xx response other than 429, without the rate-limit indicator in
\* its body, ends the call at once with an error: no wait and no further
\* request follow it, at every attempt and whatever else the body contains.
C22_ClientErrorsNeverRetried ==
    \A i \in DOMAIN LlmHistory :
        ClientError(LlmHistory[i]) =>
            /\ LlmEnded
            /\ ret[LlmThread].result.outcome = "raise"
            /\ Len(LlmHistory) = i
            /\ Len(LlmSlept) = i - 1

\* a failure of the retryable classes: a 429 or a rate-limit body, a 5xx or
\* another status that is neither 200 nor 4xx, a timeout, a transport
\* failure
Retryable(o) ==
    \/ /\ o.kind = "response"
       /\ o.status_code # 200
       /\ \/ o.status_code = 429
          \/ o.rate_marker
          \/ ~(400 <= o.status_code /\ o.status_code < 500)
    \/ /\ o.kind = "exception"
       /\ o.exc.class \in {"Timeout", "ConnectionError"}

\* attempt i has failed in a retryable way
FailedRetryably(i) ==
    i \in DOMAIN LlmHistory /\ Retryable(LlmHistory[i])

\* C23: a retryable failure of attempt i < 5 never ends the call: the
\* client waits (30 * i seconds) and then makes attempt i + 1; the call
\* raises for such a failure only at the 5th attempt.
C23_RetryableNeverFailsEarly ==
    /\ [](\A i \in 1..4 :
            (FailedRetryably(i) /\ Len(LlmHistory) = i) =>
                /\ ~LlmEnded
                /\ \/ pc[LlmThread] = "backoff"
                      /\ frame[LlmThread].wait_time = 30 * i
                   \/ pc[LlmThread] = "post" /\ LlmSlept[i] = 30 * i)
    /\ []((LlmEnded /\ FailedRetryably(Len(LlmHistory))) =>
            /\ Len(LlmHistory) = 5
            /\ ret[LlmThread].result.outcome = "raise")
    /\ \A i \in 1..4 :
          (FailedRetryably(i) /\ Len(LlmHistory) = i) ~> (Len(LlmHistory) = i + 1)

\* a call has raised at its 5th attempt, a timeout, after a redirect, a
\* rate-limit body with status 400, a server error and a transport failure
C23_Witness ==
    /\ LlmEnded
    /\ ret[LlmThread].result.outcome = "raise"
    /\ Len(LlmHistory) = 5
    /\ GotStatus(1, 302)
    /\ GotStatus(2, 400) /\ LlmHistory[2].rate_marker
    /\ GotStatus(3, 500)
    /\ LlmHistory[4].kind = "exception"
    /\ LlmHistory[4].exc.class = "ConnectionError"
    /\ LlmHistory[5].kind = "exception"
    /\ LlmHistory[5].exc.class = "Timeout"

(***************************************************************************)
(* Properties of the requests.                                             *)
(***************************************************************************)
SetLabels == {"set_wait", "set_room", "set_store", "after_set"}

FallbackOrigins == {"fallback", "static"}

\* the requests that have begun
Begun == {t \in RunThreads : pc[t] # "idle"}

\* the verdict of the validator on the text CustomCrew.run returned to t
Verdict(t) == AnalysisValidations[run[t].result.raw, run[t].query]

\* run returned to t a result of origin o
Returned(t, o) == pc[t] \in SetLabels \cup {"done"} /\ run[t].origin = o

\* C1: a request whose text comes from the fallback path (the bannered
\* fallback analysis or the static 'Analysis Unavailable' message) performs
\* no cache set.
C1_FallbackNeverCached ==
    \A t \in Begun :
        run[t].origin \in FallbackOrigins => pc[t] \notin SetLabels

\* C2: a plausible primary result whose score is below 0.3 is a failed
\* attempt: run never returns it to the handler and no request ends on it.
C2_LowScoreIsFailedAttempt ==
    \A t \in Begun :
        (pc[t] \in {"validate", "done"} /\ run[t].origin = "primary")
            => ~TooLow(Verdict(t))

\* C24: the text CustomGroqLLM.call returns for a 200 response without
\* choices is caught by the length check of run (_validate_result): when it
\* is the final output of the primary pipeline the attempt counts as failed,
\* and run never returns it to the handler as its result.
C24_NoContentIsFailedAttempt ==
    \A t \in Begun :
        (pc[t] \in {"validate", "done"} \cup SetLabels /\ run[t].origin = "primary")
            => run[t].result.raw # Raw("TextNoContent")

\* C3: a request with a valid query on a non-empty dataset ends by
\* returning a text, never by raising an error, whatever the pipelines do.
C3_AlwaysReturnsText ==
    \A t \in Begun :
        (/\ pc[t] = "done"
         /\ ValidateQueryInput(run[t].query).ok
         /\ ~DfIsEmpty(run[t].df))
            => /\ run[t].resp.status = "success"
               /\ run[t].resp.analysis # NoneVal

\* C4: a request invokes the fallback at most once, and only when
\* max_retries + 1 primary invocations have been made and the last one has
\* ended; when every primary invocation raised, run returns after exactly
\* max_retries + 1 primary invocations and one fallback invocation.
C4_ThreePrimariesThenOneFallback ==
    \A t \in Begun :
        /\ run[t].n_primary <= max_retries + 1
        /\ run[t].n_fallback <= 1
        /\ run[t].n_fallback = 1
              => /\ run[t].n_primary = max_retries + 1
                 /\ pc[t] \notin {"primary", "sleep"}
        /\ (run[t].all_raised
            /\ \E o \in {"primary", "fallback", "static"} : Returned(t, o))
              => /\ run[t].n_primary = max_retries + 1
                 /\ run[t].n_fallback = 1

\* every primary invocation raised, the fallback raised too and the request
\* has ended
C4_Witness ==
    \E t \in Begun :
        /\ pc[t] = "done"
        /\ run[t].all_raised
        /\ run[t].origin = "static"
        /\ run[t].n_primary = 3
        /\ run[t].n_fallback = 1

\* C5: status success is returned only with a text that comes from the
\* cache or from an accepted primary attempt; a text of the fallback path
\* is returned with another status.
C5_FallbackIsNotSuccess ==
    \A t \in Begun :
        (pc[t] = "done" /\ run[t].resp.status = "success")
            => run[t].origin \in {"cache", "primary"}

\* u is a request for the query and the dataset of an earlier request t
\* whose pipeline result was accepted, begun within the TTL of t's entry
Warm(t, u) ==
    /\ pc[t] = "done"
    /\ pc[u] = "done"
    /\ t \in run[u].prior
    /\ run[t].origin = "primary"
    /\ run[t].resp.status = "success"
    /\ run[u].query = run[t].query
    /\ run[u].df = run[t].df
    /\ run[u].at - run[t].at <= DefaultTtl

\* C6: cache warm: the second request invokes no pipeline and returns the
\* text of the first, with status success.
C6_CacheWarm ==
    \A t \in Begun, u \in Begun :
        Warm(t, u)
            => /\ run[u].n_primary = 0
               /\ run[u].n_fallback = 0
               /\ run[u].resp = run[t].resp

\* the second request comes later than the first, within the TTL
C6_Witness ==
    \E t \in Begun, u \in Begun :
        /\ Warm(t, u)
        /\ run[u].at > run[t].at
        /\ run[u].origin = "cache"
        /\ run[t].resp.analysis.form = "annotated"

\* the primary result returned to t is invalid with 0.3 <= score < 0.4
MidScore(t) ==
    /\ \/ Returned(t, "primary")
       \/ pc[t] = "validate" /\ run[t].origin = "primary"
    /\ ~Verdict(t).is_valid
    /\ FGe(Verdict(t).score, f_0_3)

\* C7: a primary result that is invalid with 0.3 <= score < 0.4 is accepted
\* on its attempt: no further pipeline invocation, the response is the
\* pipeline text with the annotation of issues and suggestions and status
\* success, and the cache write stores that annotated text.
C7_MidScoreAnnotatedAccepted ==
    \A t \in Begun :
        MidScore(t) =>
            LET text == Annotate(run[t].result.raw, Verdict(t))
            IN  /\ run[t].n_primary = run[t].attempt + 1
                /\ run[t].n_fallback = 0
                /\ pc[t] = "after_set"
                      => \E i \in DOMAIN cache :
                            /\ cache[i].key =
                                  FingerprintOf[<<run[t].query, run[t].df>>]
                            /\ cache[i].data = text
                /\ pc[t] = "done"
                      => run[t].resp = AnalysisResponse(run[t].query, text)

\* the second attempt returned the text of score 0.36 and the request ended
C7_Witness ==
    \E t \in Begun :
        /\ MidScore(t)
        /\ pc[t] = "done"
        /\ run[t].n_primary = 2
        /\ run[t].result.raw = Raw("TextMid")
        /\ Len(run[t].resp.analysis.issues) = 3

(***************************************************************************)
(* Properties of ResultValidator.                                          *)
(***************************************************************************)
\* the call of the validator thread and its result
Validated == ret[ValidatorThread]

AnalysisValidated == Validated.op = "validate_analysis_result"

VisualizationValidated == Validated.op = "validate_visualization_code"

\* C25: validate_analysis_result returns is_valid = False and score 0.0 for
\* every content that is empty or only whitespace, for every query, and
\* with the issue and the suggestion of the empty check only: no later
\* stage has run.
C25_EmptyContentIsInvalid ==
    (AnalysisValidated
        /\ (Validated.content.raw_len = 0 \/ Validated.content.len = 0))
        => /\ ~Validated.result.is_valid
           /\ Validated.result.score = f_0_0
           /\ Validated.result.issues = <<"Content is empty">>
           /\ Len(Validated.result.suggestions) = 1

C25_Witness ==
    /\ AnalysisValidated
    /\ Validated.content.raw_len > 0
    /\ Validated.content.len = 0
    /\ Validated.query = QueryMeanAge
    /\ ~Validated.result.is_valid

\* 0 <= x <= 1
InUnitInterval(x) == FGe(x, f_0_0) /\ FGe(f_1_0, x)

\* C26: the score of validate_analysis_result lies in [0, 1] and is_valid
\* holds exactly when score >= 0.4; the score of
\* validate_visualization_code lies in [0, 1] and is_valid holds exactly
\* when score >= 0.5.
C26_ScoreInRangeAndThreshold ==
    /\ AnalysisValidated =>
          /\ InUnitInterval(Validated.result.score)
          /\ Validated.result.is_valid <=> FGe(Validated.result.score, f_0_4)
    /\ VisualizationValidated =>
          /\ InUnitInterval(Validated.result.score)
          /\ Validated.result.is_valid <=> FGe(Validated.result.score, f_0_5)

\* a code without figure, Plotly call and dataframe, whose penalties exceed 1
C26_Witness ==
    /\ VisualizationValidated
    /\ Len(Strip(Validated.code)) > 0
    /\ Len(Validated.result.issues) >= 4
    /\ Validated.result.score = f_0_0
    /\ ~Validated.result.is_valid

\* a header, a bulleted list, two meaningful paragraphs, a percentage figure
\* and the word "recommend"
WellFormed(content) ==
    /\ content.hdr
    /\ content.lst
    /\ content.par
    /\ content.num
    /\ content.act4

f_0_6 == Dec(6, 10)

\* score > 0.6 and is_valid
ScoresAboveSixTenths(result) == FLt(f_0_6, result.score) /\ result.is_valid

\* C27 as stated: a well-formed answer whose length, as passed to the
\* validator, is between 50 and 10000 characters scores above 0.6 and is
\* valid for every query.
C27_AsStated ==
    (AnalysisValidated
        /\ WellFormed(Validated.content)
        /\ Validated.content.raw_len >= min_content_length
        /\ Validated.content.raw_len <= max_content_length)
        => ScoresAboveSixTenths(Validated.result)

\* C27: a well-formed answer whose length without leading and trailing
\* whitespace is between 50 and 10000 characters scores above 0.6 and is
\* valid for every query, whatever its relevance score.
C27_WellFormedAnswerIsValid ==
    (AnalysisValidated
        /\ WellFormed(Validated.content)
        /\ Validated.content.len >= min_content_length
        /\ Validated.content.len <= max_content_length)
        => ScoresAboveSixTenths(Validated.result)

\* a well-formed answer of minimum length, with no insight keyword and
\* nothing in common with the query: its score is just above 0.6
C27_Witness ==
    /\ AnalysisValidated
    /\ WellFormed(Validated.content)
    /\ Validated.content.len = min_content_length
    /\ Validated.content.ins = 0
    /\ ValidateRelevance(Validated.content, Validated.query) = f_0_0
    /\ FLt(Validated.result.score, Dec(65, 100))
    /\ Validated.result.is_valid

\* the code of the example: fig = px.bar(df, x='A', y='Z')
BarOfAAndZ ==
    <<"f", "i", "g", " ", "=", " ", "p", "x", ".", "b", "a", "r", "(",
      "d", "f", ",", " ", "x", "=", "'", "A", "'", ",", " ", "y", "=", "'", "Z", "'", ")">>

\* the names a call passes as quoted keyword arguments, as in x='A', y='Z'
KeywordColumns(code) ==
    {SubSeq(code, i + 2, FirstIn(code, Quotes, i + 2) - 1) :
        i \in {k \in 1..Len(code) :
                 /\ OccursAt(code, <<"=">>, k)
                 /\ k + 1 <= Len(code) /\ code[k + 1] \in Quotes
                 /\ FirstIn(code, Quotes, k + 2) > k + 2
                 /\ FirstIn(code, Quotes, k + 2) <= Len(code)}}

\* the column names the code references: through the dataframe, df['A'] or
\* df.A, or as keyword arguments of the plotting call
ReferencedColumns(code) == ExtractColumnReferences(code) \cup KeywordColumns(code)

\* the referenced columns that are not available
AbsentColumns(code, df_columns) ==
    {col \in ReferencedColumns(code) :
        \A i \in DOMAIN df_columns : df_columns[i] # col}

\* C28: validate_visualization_code reports every column name the code
\* references and that is not in df_columns; for fig = px.bar(df, x='A',
\* y='Z') with the columns A and B, an issue names Z and the score is
\* 1.0 - 0.2.
C28_ReportsAbsentColumns ==
    (VisualizationValidated /\ Len(Strip(Validated.code)) > 0)
        => /\ \A col \in AbsentColumns(Validated.code, Validated.df_columns) :
                 \E i \in DOMAIN Validated.result.issues :
                    col \in Validated.result.issues[i].names
           /\ (Validated.code = BarOfAAndZ
                  /\ Validated.df_columns = <<<<"A">>, <<"B">>>>)
                 => Validated.result.score = FSub(f_1_0, f_0_2)

\* 1 for a penalty that applies, 0 for one that does not
Indicator(applies) == FInt(IF applies THEN 1 ELSE 0)

\* clamp(1.0 - 0.5*[no figure] - 0.4*[no library call] - 0.3*[no dataframe]
\*       - 0.2*[unavailable] - 0.1*anomalies), evaluated from left to right
PenaltySum(code, unavailable) ==
    Clamp(FSub(FSub(FSub(FSub(FSub(f_1_0,
        FMul(f_0_5, Indicator(~In(<<"f", "i", "g">>, code)))),
        FMul(f_0_4, Indicator(~(In(<<"p", "x", ".">>, code) \/ In(<<"g", "o", ".">>, code))))),
        FMul(f_0_3, Indicator(~In(<<"d", "f">>, code) /\ ~In(<<"p", "d", ".", "r", "e", "a", "d", "_", "c", "s", "v">>, code)))),
        FMul(f_0_2, Indicator(unavailable))),
        FMul(f_0_1, FInt(Len(CheckBasicSyntax(code))))))

\* the code has every required element but the figure marker
MissesOnlyFigure(code, df_columns) ==
    /\ ~In(<<"f", "i", "g">>, code)
    /\ In(<<"p", "x", ".">>, code) \/ In(<<"g", "o", ".">>, code)
    /\ In(<<"d", "f">>, code)
    /\ AbsentColumns(code, df_columns) = {}
    /\ CheckBasicSyntax(code) = <<>>

\* C29: for non-empty code the score is the clamped sum of the independent
\* penalties, 0.2 of them when some column the code references is not
\* available; code that misses only the figure marker scores 0.5 and is
\* valid.
C29_ScoreIsPenaltySum ==
    (VisualizationValidated /\ Len(Strip(Validated.code)) > 0)
        => /\ Validated.result.score =
                 PenaltySum(Validated.code,
                            AbsentColumns(Validated.code, Validated.df_columns) # {})
           /\ MissesOnlyFigure(Validated.code, Validated.df_columns)
                 => /\ Validated.result.score = f_0_5
                    /\ Validated.result.is_valid

\* the same sum with the columns _extract_column_references finds
ScoreIsPenaltySumOfDetected ==
    (VisualizationValidated /\ Len(Strip(Validated.code)) > 0)
        => /\ Validated.result.score =
                 PenaltySum(Validated.code,
                            InvalidColumns(Validated.code, Validated.df_columns) # {})
           /\ (MissesOnlyFigure(Validated.code, Validated.df_columns)
                 => /\ Validated.result.score = f_0_5
                    /\ Validated.result.is_valid)

\* code that misses only the figure marker has been validated
MissesOnlyFigureValidated ==
    /\ VisualizationValidated
    /\ Len(Strip(Validated.code)) > 0
    /\ MissesOnlyFigure(Validated.code, Validated.df_columns)

\* 0.3 below 50 characters, 0.1 above 10000 characters and 0 otherwise
LengthPenalty(length) ==
    IF length < min_content_length THEN f_0_3
    ELSE IF length > max_content_length THEN f_0_1
    ELSE f_0_0

\* min(1, 0.5 + 0.2*[headers] + 0.15*[lists] + 0.15*[paragraphs])
StructureFormula(content) ==
    FMin(f_1_0,
         FAdd(FAdd(FAdd(f_0_5, FMul(f_0_2, Indicator(content.hdr))),
                   FMul(f_0_15, Indicator(content.lst))),
              FMul(f_0_15, Indicator(content.par))))

\* min(1, 0.5 + 0.2*[numbers] + min(0.2, 0.05*keywords) + 0.1*[actionable])
QualityFormula(content) ==
    FMin(f_1_0,
         FAdd(FAdd(FAdd(f_0_5, FMul(f_0_2, Indicator(content.num))),
                   FMin(f_0_2, FMul(f_0_05, FInt(content.ins)))),
              FMul(f_0_1, Indicator(content.act))))

\* clamp(((1.0 - lengthPenalty) * structure * quality) * 0.8
\*       + relevance * 0.2) for a content of the given length
ScoreFormula(content, query, length) ==
    Clamp(FAdd(FMul(FMul(FMul(FSub(f_1_0, LengthPenalty(length)),
                              StructureFormula(content)),
                         QualityFormula(content)),
                    f_0_8),
               FMul(ValidateRelevance(content, query), f_0_2)))

NonEmptyValidated ==
    /\ AnalysisValidated
    /\ Validated.content.raw_len > 0
    /\ Validated.content.len > 0

\* C30 as stated: the score of a non-empty content is the formula with the
\* length penalty of the content as passed to the validator.
C30_AsStated ==
    NonEmptyValidated
        => Validated.result.score =
              ScoreFormula(Validated.content, Validated.query,
                           Validated.content.raw_len)

\* C30: the score of a non-empty content is the clamped blend of the
\* length penalty, the structure score and the quality score with the
\* relevance score, applied in this order, where the length penalty is that
\* of the content without leading and trailing whitespace.
C30_ScoreIsBlendOfStages ==
    NonEmptyValidated
        => Validated.result.score =
              ScoreFormula(Validated.content, Validated.query,
                           Validated.content.len)

\* a content that is short only once trimmed, with a structure score below
\* 1 and some relevance
C30_Witness ==
    /\ NonEmptyValidated
    /\ Validated.content.raw_len >= min_content_length
    /\ Validated.content.len < min_content_length
    /\ Validated.content.hdr /\ ~Validated.content.par
    /\ Validated.content.num /\ Validated.content.act4
    /\ Validated.query = QueryMeanAge
    /\ FLt(Validated.result.score, f_0_4)
    /\ FLt(f_0_3, Validated.result.score)

(***************************************************************************)
(* Properties of CustomCrew.run.                                           *)
(***************************************************************************)
\* the requests in progress
Running == {t \in RunThreads : pc[t] \notin {"idle", "done"}}

\* failed invocation i of t was followed by the backoff sleep of i seconds
\* when invocations remained, the sleep being possibly in progress, and by
\* no sleep when it was the last
BackedOff(t, i) ==
    LET f == run[t].failed
    IN  IF i <= max_retries
        THEN IF i = Len(f) /\ pc[t] = "sleep" THEN f[i].slept = 0
             ELSE f[i].slept = i
        ELSE f[i].slept = 0 /\ pc[t] # "sleep"

\* C31: when an invocation of the primary pipeline raises and invocations
\* remain, run sleeps as many seconds as the number of the failed
\* invocation (1 after the 1st, 2 after the 2nd); it does not sleep after
\* the last one; a run sleeps at most 3 seconds.
C31_BackoffAfterRaise ==
    \A t \in Running :
        /\ \A i \in DOMAIN run[t].failed :
              run[t].failed[i].kind = "raised" => BackedOff(t, i)
        /\ pc[t] = "primary" => run[t].n_primary = Len(run[t].failed) + 1
        /\ SumSeq(run[t].slept) <= 3

\* the three invocations raised, with sleeps of 1 and 2 seconds between
\* them, and the fallback is invoked without another sleep
C31_Witness ==
    \E t \in Running :
        /\ pc[t] = "fallback"
        /\ run[t].all_raised
        /\ Len(run[t].failed) = 3
        /\ run[t].failed[1].slept = 1
        /\ run[t].failed[2].slept = 2
        /\ run[t].failed[3].slept = 0
        /\ run[t].failed[1].error # run[t].failed[3].error
        /\ SumSeq(run[t].slept) = 3

\* C32: an invocation whose result is empty or has fewer than 10 characters
\* once trimmed is handled as one that raised: it is one of the
\* max_retries + 1 invocations, it is followed by the same backoff sleep
\* when invocations remain, and by the fallback when it was the last.
C32_RejectedHandledAsRaised ==
    \A t \in Running :
        /\ Len(run[t].failed) <= max_retries + 1
        /\ pc[t] = "primary" => run[t].n_primary = Len(run[t].failed) + 1
        /\ \A i \in DOMAIN run[t].failed :
              run[t].failed[i].kind = "rejected"
                 => /\ BackedOff(t, i)
                    /\ i = max_retries + 1 => run[t].n_fallback = 1

\* CustomCrew.run is executing for t
InRun(t) == pc[t] \in {"primary", "sleep", "fallback"}

\* a primary invocation of t has been accepted
Accepted(t) == t \in Begun /\ run[t].origin = "primary"

\* C33: whatever the pipelines do, a run invokes the primary pipeline at
\* most max_retries + 1 times and the fallback at most once, makes no
\* invocation after a primary invocation was accepted, invokes the fallback
\* only if none was accepted, and returns to its caller when every
\* invocation ends.
C33_BoundedOrchestration ==
    /\ [](\A t \in Begun :
             /\ run[t].n_primary <= max_retries + 1
             /\ run[t].n_fallback <= 1
             /\ Accepted(t) => ~InRun(t) /\ run[t].n_fallback = 0
             /\ InRun(t) => run[t].n_primary + run[t].n_fallback >= 1)
    /\ [][\A t \in RunThreads :
             Accepted(t) => /\ run'[t].n_primary = run[t].n_primary
                            /\ run'[t].n_fallback = run[t].n_fallback]_vars
    /\ \A t \in RunThreads : InRun(t) ~> (pc[t] = "validate")

\* the second invocation was accepted after the first was rejected, and the
\* request has ended
C33_Witness ==
    /\ pc[FirstRequest] = "done"
    /\ Accepted(FirstRequest)
    /\ ~run[FirstRequest].all_raised
    /\ run[FirstRequest].n_primary = 2
    /\ run[FirstRequest].n_fallback = 0
    /\ run[FirstRequest].resp.status = "success"

\* run has returned to t what _create_fallback_result built
FallbackReturned(t) == pc[t] = "validate" /\ run[t].n_fallback = 1

\* the kickoff of the fallback crew raised or returned no text
FallbackFailed(t) ==
    \/ run[t].fallback_outcome.outcome = "raise"
    \/ ~HasRaw(run[t].fallback_outcome.result)

\* the failure of the last primary invocation of t
LastFailure(t) == run[t].failed[max_retries + 1]

\* C34: when the fallback raises or returns empty output, run returns the
\* static message around the error recorded for the last primary
\* invocation, not the fallback's own error; when that invocation was
\* rejected for a too-short result, the error is the record of the
\* rejection and not an error raised by an earlier invocation.
C34_StaticEmbedsLastFailure ==
    \A t \in Running :
        (FallbackReturned(t) /\ FallbackFailed(t))
            => /\ Len(run[t].failed) = max_retries + 1
               /\ run[t].result = CrewOutput(Static(LastFailure(t).error))
               /\ LastFailure(t).kind = "rejected"
                     => LastFailure(t).error = Raw("ErrValidation")

\* the first invocation raised a rate-limit error, the last was rejected,
\* the fallback raised a timeout: the message embeds the rejection
C34_Witness ==
    \E t \in Running :
        /\ FallbackReturned(t)
        /\ run[t].fallback_outcome = Raises(Raw("ErrTimeout"))
        /\ run[t].failed[1] = [kind |-> "raised", error |-> Raw("ErrRate"), slept |-> 1]
        /\ LastFailure(t).kind = "rejected"
        /\ run[t].result.raw = Static(Raw("ErrValidation"))

(***************************************************************************)
(* The error of a call whose last request failed.                          *)
(***************************************************************************)
\* a response with status 429 or with the rate-limit marker in its body
RateLimitResponse(o) ==
    /\ o.kind = "response"
    /\ o.status_code # 200
    /\ o.status_code = 429 \/ o.rate_marker

\* requests.post timed out
TimedOut(o) == o.kind = "exception" /\ o.exc.class = "Timeout"

\* requests.post failed at the transport level
TransportFailed(o) == o.kind = "exception" /\ o.exc.class = "ConnectionError"

\* a response with a 5xx or an unrecognized status, without the marker
ServerFailed(o) ==
    /\ o.kind = "response"
    /\ o.status_code # 200
    /\ ~RateLimitResponse(o)
    /\ o.status_code < 400 \/ o.status_code >= 500

\* the call raised the ValueError with this message
RaisedError(message) ==
    /\ ret[LlmThread].result.outcome = "raise"
    /\ ret[LlmThread].result.error.class = "ValueError"
    /\ ret[LlmThread].result.error.message = message

\* C35: when the five requests of a call fail, the error the call raises
\* tells how the 5th failed, whatever the first four did: rate limit,
\* timeout, transport failure, or server error for a 5xx or unrecognized
\* status.
C35_ErrorOfLastAttempt ==
    (LlmEnded /\ Len(LlmHistory) = call_max_retries)
        => /\ RateLimitResponse(LlmHistory[5])
                 => RaisedError("rate limit exceeded after")
           /\ TimedOut(LlmHistory[5]) => RaisedError("request timeout after")
           /\ TransportFailed(LlmHistory[5]) => RaisedError("request failed")
           /\ ServerFailed(LlmHistory[5]) => RaisedError("returned error")

\* the 5th request timed out after a rate limit, a server error and a
\* transport failure
C35_Witness ==
    /\ LlmEnded
    /\ Len(LlmHistory) = call_max_retries
    /\ TimedOut(LlmHistory[5])
    /\ \E i \in 1..4 : RateLimitResponse(LlmHistory[i])
    /\ \E i \in 1..4 : ServerFailed(LlmHistory[i])
    /\ \E i \in 1..4 : TransportFailed(LlmHistory[i])
    /\ RaisedError("request timeout after")

(***************************************************************************)
(* The access counts and the capacity checks of set.                       *)
(***************************************************************************)
\* this step is a call of set for key
SetOf(key) == ThisCall.op = "set" /\ ThisCall.key = key /\ now' = now

\* entry i of the cache and entry j of the cache after this step are those
\* of one fingerprint
SameKey(i, j) == cache[i].key = cache'[j].key

\* entry j after this step has the accesses of entry i or more
KeepsAccesses(i, j) == cache'[j].access_count >= cache[i].access_count

\* C36 as stated: for every fingerprint present before and after a step,
\* the access_count of its entry does not decrease, whatever the operation,
\* a set of a fingerprint that is present included.
C36_AsStated ==
    [][\A i \in DOMAIN cache, j \in DOMAIN cache' :
         SameKey(i, j) => KeepsAccesses(i, j)]_vars

\* C36: for every fingerprint present before and after a step, the
\* access_count of its entry does not decrease, for every operation but a
\* set of that fingerprint, which replaces the entry by one with
\* access_count 0.
C36_AccessCountGrows ==
    [][\A i \in DOMAIN cache, j \in DOMAIN cache' :
         SameKey(i, j)
            => IF SetOf(cache[i].key) THEN cache'[j].access_count = 0
               ELSE KeepsAccesses(i, j)]_vars

\* a set of another fingerprint has returned and an entry that was read is
\* still there, with its count
C36_Witness ==
    /\ LastCall.op = "set"
    /\ Len(cache) = MaxSize
    /\ \E i \in DOMAIN cache :
          /\ cache[i].key # LastCall.key
          /\ cache[i].access_count >= 1

\* this step is a call of set
SetStep == ThisCall.op = "set" /\ now' = now

\* the entries of the cache that are expired now, and those that are not
ExpiredNow == {i \in DOMAIN cache : IsExpired(cache[i], now)}

LiveNow == DOMAIN cache \ ExpiredNow

\* entry i is in the cache after this step, as it was
Kept(i) == \E j \in DOMAIN cache' : cache'[j] = cache[i]

\* C37: sweep before evict: a set on a cache that holds max_size entries,
\* one or more of them expired, removes every expired entry and evicts no
\* entry that is not expired; a set evicts an entry that is not expired
\* only when max_size entries are left after the sweep.
C37_SweepBeforeEvict ==
    [][SetStep =>
         /\ (Len(cache) = MaxSize /\ ExpiredNow # {})
               => /\ \A i \in ExpiredNow : ~Kept(i)
                  /\ \A i \in LiveNow : cache[i].key # ThisCall.key => Kept(i)
                  /\ Len(cache') <= MaxSize
         /\ (\E i \in LiveNow : cache[i].key # ThisCall.key /\ ~Kept(i))
               => Cardinality(LiveNow) >= MaxSize]_vars

\* a set of a short-lived fingerprint at time 2 has removed one entry and
\* kept the long-lived entry of time 0, the oldest of the cache: the entry
\* removed was a short-lived one of time 0, expired at time 2 (one of time 2
\* would have left the long-lived entry to _evict_lru)
C37_Witness ==
    /\ LastCall.op = "set"
    /\ LastCall.ttl_arg = ShortTtl
    /\ Len(LastCall.evicted) = 1
    /\ Len(cache) = MaxSize
    /\ now = 2
    /\ \E a \in LongLived : cache[1].key = FingerprintOf[a]
    /\ cache[1].timestamp = 0
    /\ ~IsExpired(cache[1], now)
    /\ cache[Len(cache)].key = LastCall.key
    /\ cache[Len(cache)].timestamp = now

\* C38: a set of a fingerprint that is present, on a cache that holds
\* max_size entries none of which is expired, changes the entry of that
\* fingerprint only (new payload, timestamp and access_count): every other
\* entry stays and the cache still holds max_size entries.
C38_OverwriteEvictsNothing ==
    [][(/\ SetStep
        /\ Len(cache) = MaxSize
        /\ ExpiredNow = {}
        /\ IndexOf(cache, ThisCall.key) # 0)
       => /\ Len(cache') = MaxSize
          /\ \A i \in DOMAIN cache : cache[i].key # ThisCall.key => Kept(i)
          /\ \E j \in DOMAIN cache' :
                /\ cache'[j].key = ThisCall.key
                /\ cache'[j].data = ThisCall.data
                /\ cache'[j].timestamp = now
                /\ cache'[j].access_count = 0]_vars

(***************************************************************************)
(* Properties of two overlapping requests for one fingerprint              *)
(***************************************************************************)
\* request t leaves the locked section of its set in this step
Stores(t) == pc[t] = "set_store" /\ pc'[t] = "after_set"

\* request t has ended and its lookup was a miss: it invoked _execute_crew
Missed(t) == pc[t] = "done" /\ run[t].n_primary > 0

\* request t has ended, its lookup was a miss and it has written its text
Wrote(t) == Missed(t) /\ run[t].resp.status = "success"

\* both requests have ended and were for one (query, dataset)
SameArgs ==
    /\ \A t \in RunThreads : pc[t] = "done"
    /\ \A t, u \in RunThreads :
          run[t].query = run[u].query /\ run[t].df = run[u].df

\* the cache holds one entry under the key of request t, with payload text
HoldsOnly(c, t, text) ==
    LET held == EntriesOfKey(c, FingerprintOf[<<run[t].query, run[t].df>>])
    IN  /\ Cardinality(held) = 1
        /\ \A i \in held : c[i].data = text

\* C39: the lookup and the write of a request are two locked sections.  A
\* request whose lookup misses invokes _execute_crew; a request stores the
\* text it accepted in a set of its own, and no step but the store of a set
\* changes what the cache holds for a fingerprint.  When two requests for
\* one (query, dataset) have both missed and ended, and one or both have
\* written, the cache holds one entry for the fingerprint: the text of the
\* request whose set had the lock last.
C39_LookupAndWriteSeparate ==
    /\ [][\A t \in RunThreads :
            /\ (/\ pc[t] = "after_get"
                /\ run[t].cached_result = NoneVal
                /\ pc'[t] # pc[t])
                  => pc'[t] = "primary" /\ run'[t].n_primary = 1
            /\ Stores(t) => /\ lock = t
                            /\ lock' = NoThread
                            /\ HoldsOnly(cache', t, run[t].analysis_text)]_vars
    /\ [][(\A t \in RunThreads : ~Stores(t))
            => /\ Len(cache') = Len(cache)
               /\ \A i \in DOMAIN cache :
                     /\ cache'[i].key = cache[i].key
                     /\ cache'[i].data = cache[i].data]_vars
    /\ []((SameArgs /\ (\A t \in RunThreads : Missed(t))
                    /\ (\E t \in RunThreads : Wrote(t)))
             => \E t \in RunThreads :
                   Wrote(t) /\ HoldsOnly(cache, t, run[t].resp.analysis))

\* two requests for one (query, dataset) have both missed, have written
\* different texts and have ended
C39_Witness ==
    /\ SameArgs
    /\ \A t \in RunThreads : Wrote(t)
    /\ \E t, u \in RunThreads :
          /\ run[t].resp.analysis # run[u].resp.analysis
          /\ HoldsOnly(cache, t, run[t].resp.analysis)

====
